---- MODULE Spec2Model ----
(***************************************************************************)
(* The inode layer of fs.c: the in-memory inode cache (iget, idup, ilock,  *)
(* iunlock, iput), its eviction and deferred reclamation.                  *)
(*                                                                         *)
(* A cache entry is a piece of kmalloc'ed memory, modelled as a slot of    *)
(* mem.  A thread's ip and victim are pointers (slot numbers).  kmfree     *)
(* gives a slot back to the allocator and kmalloc may hand the same slot   *)
(* out again, so a pointer kept across a reclamation aliases whatever the  *)
(* slot holds next.                                                        *)
(***************************************************************************)
EXTENDS Integers, Sequences, FiniteSets, TLC

\* ------------------------------------------------------------- bounds
NINODE == 1        \* cache capacity (param.h), scaled down
MaxThreads == 2    \* threads calling into the inode layer
MaxInum == 2       \* on-disk inodes 1..MaxInum
MaxCalls == 3      \* iget and idup calls made in one run
MaxOwn == 2        \* counted references one thread holds on its inode

Threads == 1..MaxThreads
Inums == 1..MaxInum
Keys == ((0 - NINODE)..(0 - 1)) \cup Inums
MaxSlots == NINODE + MaxThreads
Slots == 1..MaxSlots
NoSlot == 0
NoThread == 0

\* flags of struct inode
I_BUSYR == "I_BUSYR"
I_BUSYW == "I_BUSYW"
I_VALID == "I_VALID"
I_FREE == "I_FREE"

T_DIR == 1
T_FILE == 2

VARIABLES
  mem,      \* slot -> the struct inode stored there (alloc: the memory is allocated)
  index,    \* ins: key -> slot, NoSlot when the key is absent
  disk,     \* inum -> on-disk inode (dinode)
  pend,     \* slot -> the rcu_delayed calls not yet run: for each, the readers awaited
  inRead,   \* threads inside rcu_begin_read .. rcu_end_read
  pc,       \* thread -> position in the operation it runs
  arg,      \* thread -> inum argument of its iget (0 outside iget)
  wr,       \* thread -> writer argument of its ilock (0 outside ilock)
  ip,       \* thread -> its ip pointer
  victim,   \* thread -> its victim pointer
  visited,  \* thread -> entries its ns_enumerate has passed
  own,      \* thread -> counted references it holds on ip (caller's bookkeeping)
  held,     \* thread -> logical lock it holds on ip: "none", "shared", "excl"
  stale,    \* <<thread, "ip"|"victim">>: pointers whose memory was reclaimed since taken
  uaf,      \* the step just taken read or wrote reclaimed memory
  panic,    \* "" or the message of the panic that stopped the kernel
  ncalls,   \* iget and idup calls made so far
  al,       \* thread -> its ialloc call: phase, inum scanned, type asked for, gen found
  tr,       \* the inode, indirect block and bfree log of the single-threaded iput
  dir,      \* the directory, its children's refs and the last dirlink/dirlookup result
  fl,       \* the regular file of the single-threaded writei/readi, its blocks and the bitmap
  bm,       \* the block bitmap, the buffer locks and each thread's balloc/bfree call
  nx        \* the directory tree, the name cache and the namex call in progress

vars == <<mem, index, disk, pend, inRead, pc, arg, wr, ip, victim, visited,
          own, held, stale, uaf, panic, ncalls, al, tr, dir, fl, bm, nx>>

\* The state of the layers above and beside the inode cache.
aux == <<al, tr, dir, fl, bm, nx>>

\* ------------------------------------------------------------- memory
\* memset(ip, 0, sizeof(*ip)) of iinit; also a slot of the allocator nobody points to.
ZeroInode(n, a) ==
  [alloc |-> a, inum |-> n, ref |-> 0, flags |-> {}, readbusy |-> 0,
   lock |-> NoThread, type |-> 0, nlink |-> 0, size |-> 0, gen |-> 0]

\* The on-disk inodes after format: odd inums are unlinked files with data
\* (nlink = 0), even inums are linked files.
FormatDinode(n) ==
  [type |-> T_FILE, nlink |-> IF n % 2 = 1 THEN 0 ELSE 1, size |-> 1, gen |-> 0]

\* A read or write of *p by thread t through its pointer k ("ip" or "victim")
\* touches reclaimed memory when the slot is free or was reclaimed since t took p.
Touch(t, k, s) == ~mem[s].alloc \/ <<t, k>> \in stale

\* The contents of free memory that no pointer and no index entry leads to cannot
\* be observed: such slots are kept zeroed.
Canon(m, ips, vics, idx) ==
  [s \in Slots |->
     IF ~m[s].alloc /\ (\A t \in Threads : ips[t] # s /\ vics[t] # s)
                    /\ (\A k \in Keys : idx[k] # s)
       THEN ZeroInode(0, FALSE) ELSE m[s]]

\* rcu_end_read with t removed from the readers every delayed free waits for.
EndRead(pd, t) ==
  [s \in Slots |-> [i \in 1..Len(pd[s]) |-> pd[s][i] \ {t}]]

\* An iunlock that wakes nobody: the sleepers stay asleep.
NoWakeup(s, p) == p

\* cv_wakeup(&ip->cv): every thread asleep on the condition variable of slot s
\* becomes runnable and will re-acquire the spinlock.
Woken(s, p) ==
  [t \in Threads |->
     IF ip[t] = s /\ p[t] = "ig_sleep" THEN "ig_waitacq"
     ELSE IF ip[t] = s /\ p[t] = "il_sleep" THEN "il_acq"
     ELSE p[t]]

Running == panic = ""

\* panic(msg): the kernel stops.
Panic(t, msg) ==
  /\ panic' = msg
  /\ pc' = [pc EXCEPT ![t] = "panic"]

\* ------------------------------------------------------------- iinit
CacheMemInit ==
  /\ mem = [s \in Slots |->
              IF s <= NINODE THEN ZeroInode(0 - s, TRUE) ELSE ZeroInode(0, FALSE)]
  /\ index = [k \in Keys |-> IF k < 0 THEN 0 - k ELSE NoSlot]
  /\ pend = [s \in Slots |-> <<>>]
  /\ inRead = {}
  /\ pc = [t \in Threads |-> "idle"]
  /\ arg = [t \in Threads |-> 0]
  /\ wr = [t \in Threads |-> 0]
  /\ ip = [t \in Threads |-> NoSlot]
  /\ victim = [t \in Threads |-> NoSlot]
  /\ visited = [t \in Threads |-> {}]
  /\ own = [t \in Threads |-> 0]
  /\ held = [t \in Threads |-> "none"]
  /\ stale = {}
  /\ uaf = FALSE
  /\ panic = ""
  /\ ncalls = 0

\* iinit over the formatted disk.
CacheInit == CacheMemInit /\ disk = [n \in Inums |-> FormatDinode(n)]

\* No ialloc is running, no inode is being torn down, no directory or file is
\* open, no block is being allocated, no path is being walked.
AllocOff == [t \in Threads |-> [phase |-> "off", inum |-> 0, type |-> 0, gen |-> 0]]
TruncOff == [phase |-> "off"]
DirOff == [phase |-> "off"]
FileOff == [phase |-> "off"]
BitmapOff == [phase |-> "off"]
NamexOff == [phase |-> "off"]

Init ==
  /\ CacheInit
  /\ al = AllocOff
  /\ tr = TruncOff
  /\ dir = DirOff
  /\ fl = FileOff /\ bm = BitmapOff /\ nx = NamexOff

\* ------------------------------------------------------------- iget, hit path
\* rcu_begin_read(); ip = ns_lookup(ins, inum); on a miss rcu_end_read().
Lookup(t, n) ==
  /\ arg' = [arg EXCEPT ![t] = n]
  /\ stale' = stale \ {<<t, "ip">>}
  /\ uaf' = FALSE
  /\ ip' = [ip EXCEPT ![t] = index[n]]
  /\ mem' = Canon(mem, ip', victim, index)
  /\ IF index[n] # NoSlot
       THEN /\ inRead' = inRead \cup {t}
            /\ pc' = [pc EXCEPT ![t] = "ig_bump"]
       ELSE /\ pc' = [pc EXCEPT ![t] = "ev_enum"]
            /\ UNCHANGED inRead
  /\ UNCHANGED <<index, disk, pend, wr, victim, visited, own, held, panic>>

\* A caller that holds no inode calls iget(dev, n).
Iget(t, n) ==
  /\ Running /\ pc[t] = "idle" /\ own[t] = 0 /\ ncalls < MaxCalls
  /\ ncalls' = ncalls + 1
  /\ Lookup(t, n)
  /\ UNCHANGED aux

\* goto retry
IgetRetry(t) ==
  /\ Running /\ pc[t] = "ig_lookup"
  /\ Lookup(t, arg[t])
  /\ UNCHANGED ncalls
  /\ UNCHANGED aux

\* __sync_fetch_and_add(&ip->ref, 1)
IgetBump(t) ==
  /\ Running /\ pc[t] = "ig_bump"
  /\ mem' = [mem EXCEPT ![ip[t]].ref = @ + 1]
  /\ uaf' = Touch(t, "ip", ip[t])
  /\ pc' = [pc EXCEPT ![t] = "ig_chkfree"]
  /\ UNCHANGED <<index, disk, pend, inRead, arg, wr, ip, victim, visited,
                 own, held, stale, panic, ncalls>>
  /\ UNCHANGED aux

\* if (ip->flags & I_FREE) { rcu_end_read(); ... } else rcu_end_read();
IgetChkFree(t) ==
  /\ Running /\ pc[t] = "ig_chkfree"
  /\ uaf' = Touch(t, "ip", ip[t])
  /\ inRead' = inRead \ {t}
  /\ pend' = EndRead(pend, t)
  /\ pc' = [pc EXCEPT ![t] =
              IF I_FREE \in mem[ip[t]].flags THEN "ig_backoff" ELSE "ig_chkvalid"]
  /\ UNCHANGED <<mem, index, disk, arg, wr, ip, victim, visited, own, held,
                 stale, panic, ncalls>>
  /\ UNCHANGED aux

\* __sync_sub_and_fetch(&ip->ref, 1); goto retry;   (rcu_end_read came first)
IgetBackoff(t) ==
  /\ Running /\ pc[t] = "ig_backoff"
  /\ mem' = [mem EXCEPT ![ip[t]].ref = @ - 1]
  /\ uaf' = Touch(t, "ip", ip[t])
  /\ pc' = [pc EXCEPT ![t] = "ig_lookup"]
  /\ UNCHANGED <<index, disk, pend, inRead, arg, wr, ip, victim, visited,
                 own, held, stale, panic, ncalls>>
  /\ UNCHANGED aux

\* return ip;  the caller now owns one counted reference.
IgetReturn(t) ==
  /\ pc' = [pc EXCEPT ![t] = "idle"]
  /\ own' = [own EXCEPT ![t] = 1]
  /\ arg' = [arg EXCEPT ![t] = 0]

\* if (!(ip->flags & I_VALID)) { ... wait ... }  return ip;
IgetChkValid(t) ==
  /\ Running /\ pc[t] = "ig_chkvalid"
  /\ uaf' = Touch(t, "ip", ip[t])
  /\ IF I_VALID \in mem[ip[t]].flags
       THEN IgetReturn(t)
       ELSE /\ pc' = [pc EXCEPT ![t] = "ig_waitacq"]
            /\ UNCHANGED <<own, arg>>
  /\ UNCHANGED <<mem, index, disk, pend, inRead, wr, ip, victim, visited,
                 held, stale, panic, ncalls>>
  /\ UNCHANGED aux

\* acquire(&ip->lock); while((ip->flags & I_VALID) == 0) cv_sleep(&ip->cv, &ip->lock);
\* release(&ip->lock); return ip;   cv_sleep gives the spinlock up atomically.
IgetWaitValid(t) ==
  /\ Running /\ pc[t] = "ig_waitacq"
  /\ mem[ip[t]].lock = NoThread
  /\ uaf' = Touch(t, "ip", ip[t])
  /\ IF I_VALID \in mem[ip[t]].flags
       THEN IgetReturn(t)
       ELSE /\ pc' = [pc EXCEPT ![t] = "ig_sleep"]
            /\ UNCHANGED <<own, arg>>
  /\ UNCHANGED <<mem, index, disk, pend, inRead, wr, ip, victim, visited,
                 held, stale, panic, ncalls>>
  /\ UNCHANGED aux

\* ------------------------------------------------------------- eviction
\* One visit of ns_enumerate(ins, evict): evict() takes the entry's spinlock and
\* returns the entry, lock held, when its ref is 0; otherwise releases and the
\* enumeration goes on.  With every entry passed, iget panics.
EvictEnum(t) ==
  /\ Running /\ pc[t] = "ev_enum"
  /\ LET todo == ({index[k] : k \in Keys} \ {NoSlot}) \ visited[t]
     IN IF todo = {}
          THEN /\ Panic(t, "iget out of space")
               /\ uaf' = FALSE
               /\ UNCHANGED <<mem, victim, visited, stale>>
          ELSE \E s \in todo :
                 /\ mem[s].lock = NoThread
                 /\ uaf' = ~mem[s].alloc
                 /\ IF mem[s].ref = 0
                      THEN /\ mem' = [mem EXCEPT ![s].lock = t]
                           /\ victim' = [victim EXCEPT ![t] = s]
                           /\ stale' = stale \ {<<t, "victim">>}
                           /\ pc' = [pc EXCEPT ![t] = "ev_flag"]
                           /\ visited' = [visited EXCEPT ![t] = {}]
                      ELSE /\ visited' = [visited EXCEPT ![t] = @ \cup {s}]
                           /\ UNCHANGED <<mem, victim, stale, pc>>
                 /\ UNCHANGED panic
  /\ UNCHANGED <<index, disk, pend, inRead, arg, wr, ip, own, held, ncalls>>
  /\ UNCHANGED aux

\* victim->flags |= I_FREE;
EvictFlag(t) ==
  /\ Running /\ pc[t] = "ev_flag"
  /\ mem' = [mem EXCEPT ![victim[t]].flags = @ \cup {I_FREE}]
  /\ uaf' = Touch(t, "victim", victim[t])
  /\ pc' = [pc EXCEPT ![t] = "ev_chk"]
  /\ UNCHANGED <<index, disk, pend, inRead, arg, wr, ip, victim, visited,
                 own, held, stale, panic, ncalls>>
  /\ UNCHANGED aux

\* if (victim->ref > 0) { victim->flags &= ~I_FREE; release; goto retry_evict; }
\* release(&victim->lock);
EvictChk(t) ==
  /\ Running /\ pc[t] = "ev_chk"
  /\ uaf' = Touch(t, "victim", victim[t])
  /\ IF mem[victim[t]].ref > 0
       THEN /\ victim' = [victim EXCEPT ![t] = NoSlot]
            /\ mem' = Canon([mem EXCEPT ![victim[t]].flags = @ \ {I_FREE},
                                        ![victim[t]].lock = NoThread],
                            ip, victim', index)
            /\ stale' = stale \ {<<t, "victim">>}
            /\ pc' = [pc EXCEPT ![t] = "ev_enum"]
       ELSE /\ mem' = [mem EXCEPT ![victim[t]].lock = NoThread]
            /\ pc' = [pc EXCEPT ![t] = "ev_remove"]
            /\ UNCHANGED <<victim, stale>>
  /\ UNCHANGED <<index, disk, pend, inRead, arg, wr, ip, visited, own, held,
                 panic, ncalls>>
  /\ UNCHANGED aux

\* ns_remove(ins, key, val): the pair (key, val) leaves the index.
NsRemove(idx, k, s) ==
  [x \in Keys |-> IF x = k /\ idx[x] = s THEN NoSlot ELSE idx[x]]

\* rcu_delayed(p, kmfree): kmfree(p) runs once every read section active now has ended.
RcuDelayed(pd, s) == [pd EXCEPT ![s] = Append(@, inRead)]

\* ns_remove(ins, victim->inum, victim); rcu_delayed(victim, kmfree);
EvictRemove(t) ==
  /\ Running /\ pc[t] = "ev_remove"
  /\ uaf' = Touch(t, "victim", victim[t])
  /\ index' = NsRemove(index, mem[victim[t]].inum, victim[t])
  /\ pend' = RcuDelayed(pend, victim[t])
  /\ victim' = [victim EXCEPT ![t] = NoSlot]
  /\ mem' = Canon(mem, ip, victim', index')
  /\ stale' = stale \ {<<t, "victim">>}
  /\ pc' = [pc EXCEPT ![t] = "ig_alloc"]
  /\ UNCHANGED <<disk, inRead, arg, wr, ip, visited, own, held, panic, ncalls>>
  /\ UNCHANGED aux

\* The rcu machinery runs a delayed kmfree whose readers have all left: the slot
\* goes back to the allocator, and every pointer still held to it dangles.
Reclaim(s) ==
  /\ Running
  /\ \E i \in 1..Len(pend[s]) :
       /\ pend[s][i] = {}
       /\ pend' = [pend EXCEPT ![s] =
                     SubSeq(@, 1, i - 1) \o SubSeq(@, i + 1, Len(@))]
  /\ mem' = Canon([mem EXCEPT ![s].alloc = FALSE], ip, victim, index)
  /\ stale' = stale \cup {<<t, "ip">> : t \in {u \in Threads : ip[u] = s}}
                    \cup {<<t, "victim">> : t \in {u \in Threads : victim[u] = s}}
  /\ uaf' = FALSE
  /\ UNCHANGED <<index, disk, inRead, pc, arg, wr, ip, victim, visited, own,
                 held, panic, ncalls>>
  /\ UNCHANGED aux

\* ------------------------------------------------------------- iget, miss path
\* ip = kmalloc(sizeof(*ip)); ip->dev = dev; ip->inum = inum; ip->ref = 1;
\* ip->flags = I_BUSYR | I_BUSYW; ip->readbusy = 1; initlock(&ip->lock, ...);
\* the other fields keep what the memory held.
FreshInode(old, n) ==
  [old EXCEPT !.alloc = TRUE, !.inum = n, !.ref = 1,
              !.flags = {I_BUSYR, I_BUSYW}, !.readbusy = 1, !.lock = NoThread]

\* The memory kmalloc may return: any free slot (zeroed slots are alike: the first).
KmallocChoices ==
  LET free == {s \in Slots : ~mem[s].alloc}
      zero == {s \in free : mem[s] = ZeroInode(0, FALSE)}
  IN (free \ zero) \cup {s \in zero : \A z \in zero : s <= z}

\* ip = kmalloc(...); ...; if (ns_insert(ins, ip->inum, ip) < 0) {
\*   rcu_delayed(ip, kmfree); goto retry; }
IgetAlloc(t) ==
  /\ Running /\ pc[t] = "ig_alloc"
  /\ \E s \in KmallocChoices :
       /\ mem' = [mem EXCEPT ![s] = FreshInode(@, arg[t])]
       /\ ip' = [ip EXCEPT ![t] = s]
       /\ stale' = stale \ {<<t, "ip">>}
       /\ IF index[arg[t]] # NoSlot
            THEN /\ pend' = RcuDelayed(pend, s)
                 /\ pc' = [pc EXCEPT ![t] = "ig_lookup"]
                 /\ UNCHANGED index
            ELSE /\ index' = [index EXCEPT ![arg[t]] = s]
                 /\ pc' = [pc EXCEPT ![t] = "ig_load"]
                 /\ UNCHANGED pend
  /\ uaf' = FALSE
  /\ UNCHANGED <<disk, inRead, arg, wr, victim, visited, own, held, panic, ncalls>>
  /\ UNCHANGED aux

\* bread(ip->dev, IBLOCK(ip->inum)); ip->type = dip->type; ...; brelse;
\* ip->flags |= I_VALID;
IgetLoad(t) ==
  /\ Running /\ pc[t] = "ig_load"
  /\ uaf' = Touch(t, "ip", ip[t])
  /\ LET s == ip[t]
         d == disk[mem[s].inum]
     IN mem' = [mem EXCEPT ![s].type = d.type, ![s].nlink = d.nlink,
                           ![s].size = d.size, ![s].gen = d.gen,
                           ![s].flags = @ \cup {I_VALID}]
  /\ pc' = [pc EXCEPT ![t] = "ig_iu_chk"]
  /\ UNCHANGED <<index, disk, pend, inRead, arg, wr, ip, victim, visited,
                 own, held, stale, panic, ncalls>>
  /\ UNCHANGED aux

\* ------------------------------------------------------------- iunlock
\* if(ip == 0 || !(ip->flags & (I_BUSYR | I_BUSYW)) || ip->ref < 1) panic("iunlock");
\* read without the spinlock.  at/next: the pc of this step and of the next one.
IunlockChk(t, at, next) ==
  /\ Running /\ pc[t] = at
  /\ uaf' = Touch(t, "ip", ip[t])
  /\ IF mem[ip[t]].flags \cap {I_BUSYR, I_BUSYW} = {} \/ mem[ip[t]].ref < 1
       THEN Panic(t, "iunlock")
       ELSE pc' = [pc EXCEPT ![t] = next] /\ UNCHANGED panic
  /\ UNCHANGED <<mem, index, disk, pend, inRead, arg, wr, ip, victim, visited,
                 own, held, stale, ncalls>>

\* The flags iunlock leaves: I_BUSYW always cleared, I_BUSYR with the last reader.
UnlockFlags(flags, lastreader) ==
  flags \ ({I_BUSYW} \cup (IF lastreader = 0 THEN {I_BUSYR} ELSE {}))

\* acquire(&ip->lock); lastreader = __sync_sub_and_fetch(&ip->readbusy, 1);
\* ip->flags &= ~(I_BUSYW | ((lastreader==0) ? I_BUSYR : 0));
\* cv_wakeup(&ip->cv); release(&ip->lock);
IunlockCS(t, at) ==
  /\ Running /\ pc[t] = at
  /\ mem[ip[t]].lock = NoThread
  /\ uaf' = Touch(t, "ip", ip[t])
  /\ LET s == ip[t]
         lastreader == mem[s].readbusy - 1
     IN mem' = [mem EXCEPT ![s].readbusy = lastreader,
                           ![s].flags = UnlockFlags(@, lastreader)]
  /\ UNCHANGED <<index, disk, pend, inRead, wr, ip, victim, visited,
                 stale, panic, ncalls>>

\* iunlock(ip) at the end of iget's miss path: its check ...
IgetUnlockChk(t) == IunlockChk(t, "ig_iu_chk", "ig_iu_cs") /\ UNCHANGED aux

\* ... and its critical section; return ip;
IgetUnlock(t) ==
  /\ IunlockCS(t, "ig_iu_cs")
  /\ pc' = Woken(ip[t], [pc EXCEPT ![t] = "idle"])
  /\ own' = [own EXCEPT ![t] = 1]
  /\ arg' = [arg EXCEPT ![t] = 0]
  /\ UNCHANGED held
  /\ UNCHANGED aux

\* A caller that holds the logical lock calls iunlock(ip).
IunlockCall(t) ==
  /\ held[t] # "none"
  /\ IunlockChk(t, "idle", "iu_cs")

Iunlock(t) == IunlockCall(t) /\ UNCHANGED aux

IunlockRelease(t) ==
  /\ IunlockCS(t, "iu_cs")
  /\ pc' = Woken(ip[t], [pc EXCEPT ![t] = "idle"])
  /\ held' = [held EXCEPT ![t] = "none"]
  /\ UNCHANGED <<own, arg>>
  /\ UNCHANGED aux

\* ------------------------------------------------------------- idup
\* __sync_fetch_and_add(&ip->ref, 1); return ip;
Idup(t) ==
  /\ Running /\ pc[t] = "idle" /\ own[t] >= 1 /\ own[t] < MaxOwn
  /\ ncalls < MaxCalls
  /\ ncalls' = ncalls + 1
  /\ mem' = [mem EXCEPT ![ip[t]].ref = @ + 1]
  /\ uaf' = Touch(t, "ip", ip[t])
  /\ own' = [own EXCEPT ![t] = @ + 1]
  /\ UNCHANGED <<index, disk, pend, inRead, pc, arg, wr, ip, victim, visited,
                 held, stale, panic>>
  /\ UNCHANGED aux

\* ------------------------------------------------------------- ilock
\* A caller that holds a reference to an inode it has not locked calls
\* ilock(ip, w):  if(ip == 0 || ip->ref < 1) panic("ilock");
IlockCall(t, w) ==
  /\ Running /\ pc[t] = "idle" /\ own[t] >= 1 /\ held[t] = "none"
  /\ uaf' = Touch(t, "ip", ip[t])
  /\ IF mem[ip[t]].ref < 1
       THEN Panic(t, "ilock") /\ UNCHANGED wr
       ELSE /\ pc' = [pc EXCEPT ![t] = "il_acq"]
            /\ wr' = [wr EXCEPT ![t] = w]
            /\ UNCHANGED panic
  /\ UNCHANGED <<mem, index, disk, pend, inRead, arg, ip, victim, visited,
                 own, held, stale, ncalls>>

Ilock(t, w) == IlockCall(t, w) /\ UNCHANGED aux

\* The flags that make ilock wait: ip->flags & (I_BUSYW | (writer ? I_BUSYR : 0))
LockBlockers(w) == {I_BUSYW} \cup (IF w = 1 THEN {I_BUSYR} ELSE {})

\* The flags ilock sets: ip->flags |= I_BUSYR | (writer ? I_BUSYW : 0)
LockFlags(w) == {I_BUSYR} \cup (IF w = 1 THEN {I_BUSYW} ELSE {})

\* acquire(&ip->lock); while(ip->flags & ...) cv_sleep(&ip->cv, &ip->lock);
\* ip->flags |= ...; __sync_fetch_and_add(&ip->readbusy, 1); release(&ip->lock);
IlockAcq(t) ==
  /\ Running /\ pc[t] = "il_acq"
  /\ mem[ip[t]].lock = NoThread
  /\ uaf' = Touch(t, "ip", ip[t])
  /\ IF mem[ip[t]].flags \cap LockBlockers(wr[t]) # {}
       THEN /\ pc' = [pc EXCEPT ![t] = "il_sleep"]
            /\ UNCHANGED mem
       ELSE /\ mem' = [mem EXCEPT ![ip[t]].flags = @ \cup LockFlags(wr[t]),
                                  ![ip[t]].readbusy = @ + 1]
            /\ pc' = [pc EXCEPT ![t] = "il_post"]
  /\ UNCHANGED <<index, disk, pend, inRead, arg, wr, ip, victim, visited,
                 own, held, stale, panic, ncalls>>
  /\ UNCHANGED aux

\* if((ip->flags & I_VALID) == 0) panic("ilock");  and ilock returns.
IlockPost(t) ==
  /\ Running /\ pc[t] = "il_post"
  /\ uaf' = Touch(t, "ip", ip[t])
  /\ IF I_VALID \notin mem[ip[t]].flags
       THEN Panic(t, "ilock") /\ UNCHANGED <<held, wr>>
       ELSE /\ pc' = [pc EXCEPT ![t] = "idle"]
            /\ held' = [held EXCEPT ![t] = IF wr[t] = 1 THEN "excl" ELSE "shared"]
            /\ wr' = [wr EXCEPT ![t] = 0]
            /\ UNCHANGED panic
  /\ UNCHANGED <<mem, index, disk, pend, inRead, arg, ip, victim, visited,
                 own, stale, ncalls>>
  /\ UNCHANGED aux

\* ------------------------------------------------------------- iupdate
\* dip = the dinode of ip->inum; dip->type = ip->type; ...; bwrite(bp);
Iupdate(dk, e) ==
  IF e.inum \in Inums
    THEN [dk EXCEPT ![e.inum] =
            [type |-> e.type, nlink |-> e.nlink, size |-> e.size, gen |-> e.gen]]
    ELSE dk

\* ------------------------------------------------------------- iput
\* iput is over: a caller left without a reference forgets the pointer.
IputReturn(t, m, p, left) ==
  /\ pc' = p
  /\ ip' = [ip EXCEPT ![t] = IF left = 0 THEN NoSlot ELSE @]
  /\ stale' = IF left = 0 THEN stale \ {<<t, "ip">>} ELSE stale
  /\ mem' = Canon(m, ip', victim, index)

\* A caller that holds a reference to an inode it has not locked calls iput(ip):
\* if(__sync_sub_and_fetch(&ip->ref, 1) == 0) { ... }
IputCall(t) ==
  /\ Running /\ pc[t] = "idle" /\ own[t] >= 1 /\ held[t] = "none"
  /\ uaf' = Touch(t, "ip", ip[t])
  /\ own' = [own EXCEPT ![t] = @ - 1]
  /\ LET m == [mem EXCEPT ![ip[t]].ref = @ - 1]
     IN IF m[ip[t]].ref = 0
          THEN /\ mem' = m
               /\ pc' = [pc EXCEPT ![t] = "ip_acq"]
               /\ UNCHANGED <<ip, stale>>
          ELSE IputReturn(t, m, [pc EXCEPT ![t] = "idle"], own[t] - 1)
  /\ UNCHANGED <<index, disk, pend, inRead, arg, wr, victim, visited,
                 held, panic, ncalls>>

Iput(t) == IputCall(t) /\ UNCHANGED aux

\* acquire(&ip->lock);
\* if (ip->ref == 0 && ip->nlink == 0) { panics; ip->flags |= I_BUSYR | I_BUSYW;
\*   __sync_fetch_and_add(&ip->readbusy, 1); release(&ip->lock); ... }
\* else release(&ip->lock);
IputAcq(t) ==
  /\ Running /\ pc[t] = "ip_acq"
  /\ mem[ip[t]].lock = NoThread
  /\ uaf' = Touch(t, "ip", ip[t])
  /\ LET e == mem[ip[t]]
     IN IF e.ref = 0 /\ e.nlink = 0
          THEN IF e.flags \cap {I_BUSYR, I_BUSYW} # {}
                 THEN Panic(t, "iput busy") /\ UNCHANGED <<mem, ip, stale>>
               ELSE IF I_VALID \notin e.flags
                 THEN Panic(t, "iput not valid") /\ UNCHANGED <<mem, ip, stale>>
               ELSE /\ mem' = [mem EXCEPT ![ip[t]].flags = @ \cup {I_BUSYR, I_BUSYW},
                                          ![ip[t]].readbusy = @ + 1]
                    /\ pc' = [pc EXCEPT ![t] = "ip_trunc"]
                    /\ UNCHANGED <<panic, ip, stale>>
          ELSE /\ IputReturn(t, mem, [pc EXCEPT ![t] = "idle"], own[t])
               /\ UNCHANGED panic
  /\ UNCHANGED <<index, disk, pend, inRead, arg, wr, victim, visited,
                 own, held, ncalls>>
  /\ UNCHANGED aux

\* itrunc(ip): the blocks go to bfree, ip->size = 0; iupdate(ip);
IputTrunc(t) ==
  /\ Running /\ pc[t] = "ip_trunc"
  /\ uaf' = Touch(t, "ip", ip[t])
  /\ mem' = [mem EXCEPT ![ip[t]].size = 0]
  /\ disk' = Iupdate(disk, mem'[ip[t]])
  /\ pc' = [pc EXCEPT ![t] = "ip_free"]
  /\ UNCHANGED <<index, pend, inRead, arg, wr, ip, victim, visited, own, held,
                 stale, panic, ncalls>>
  /\ UNCHANGED aux

\* ip->type = 0; ip->major = 0; ip->minor = 0; ip->gen += 1; iupdate(ip);
IputFree(t) ==
  /\ Running /\ pc[t] = "ip_free"
  /\ uaf' = Touch(t, "ip", ip[t])
  /\ mem' = [mem EXCEPT ![ip[t]].type = 0, ![ip[t]].gen = @ + 1]
  /\ disk' = Iupdate(disk, mem'[ip[t]])
  /\ pc' = [pc EXCEPT ![t] = "ip_rel"]
  /\ UNCHANGED <<index, pend, inRead, arg, wr, ip, victim, visited, own, held,
                 stale, panic, ncalls>>
  /\ UNCHANGED aux

\* acquire(&ip->lock); ip->flags &= ~(I_BUSYR | I_BUSYW);
\* __sync_sub_and_fetch(&ip->readbusy, 1); cv_wakeup(&ip->cv); release(&ip->lock);
IputRel(t) ==
  /\ Running /\ pc[t] = "ip_rel"
  /\ mem[ip[t]].lock = NoThread
  /\ uaf' = Touch(t, "ip", ip[t])
  /\ IputReturn(t, [mem EXCEPT ![ip[t]].flags = @ \ {I_BUSYR, I_BUSYW},
                               ![ip[t]].readbusy = @ - 1],
                Woken(ip[t], [pc EXCEPT ![t] = "idle"]), own[t])
  /\ UNCHANGED <<index, disk, pend, inRead, arg, wr, victim, visited,
                 own, held, panic, ncalls>>
  /\ UNCHANGED aux

\* ------------------------------------------------------------- the system
Next ==
  \/ \E t \in Threads :
       \/ \E n \in Inums : Iget(t, n)
       \/ IgetRetry(t) \/ IgetBump(t) \/ IgetChkFree(t) \/ IgetBackoff(t)
       \/ IgetChkValid(t) \/ IgetWaitValid(t)
       \/ EvictEnum(t) \/ EvictFlag(t) \/ EvictChk(t) \/ EvictRemove(t)
       \/ IgetAlloc(t) \/ IgetLoad(t) \/ IgetUnlockChk(t) \/ IgetUnlock(t)
       \/ Idup(t)
       \/ \E w \in {0, 1} : Ilock(t, w)
       \/ IlockAcq(t) \/ IlockPost(t)
       \/ Iunlock(t) \/ IunlockRelease(t)
       \/ Iput(t) \/ IputAcq(t) \/ IputTrunc(t) \/ IputFree(t) \/ IputRel(t)
  \/ \E s \in Slots : Reclaim(s)

Spec == Init /\ [][Next]_vars

\* ------------------------------------------------------------- properties of the cache
\* The entry at slot s is reachable from the index.
InIndex(s) == \E k \in Keys : index[k] = s

\* Threads holding the entry at s exclusively: after ilock(ip, 1) set the flags,
\* the miss-path loader from its ns_insert to its iunlock, iput's teardown.
ExclHolders(s) ==
  {t \in Threads :
     /\ ip[t] = s
     /\ \/ held[t] = "excl"
        \/ pc[t] = "il_post" /\ wr[t] = 1
        \/ pc[t] \in {"ig_load", "ig_iu_chk", "ig_iu_cs", "ip_trunc", "ip_free", "ip_rel"}}

\* Threads holding the entry at s shared: after ilock(ip, 0) set the flags.
SharedHolders(s) ==
  {t \in Threads :
     /\ ip[t] = s
     /\ \/ held[t] = "shared"
        \/ pc[t] = "il_post" /\ wr[t] = 0}

\* The counted references callers hold on the entry at s.
RECURSIVE SumOwn(_, _)
SumOwn(ts, s) ==
  IF ts = {} THEN 0
  ELSE LET t == CHOOSE x \in ts : TRUE
       IN (IF ip[t] = s THEN own[t] ELSE 0) + SumOwn(ts \ {t}, s)

\* No iget or iput is in flight on the entry at s.
Quiescent(s) ==
  \A t \in Threads :
    (ip[t] = s \/ victim[t] = s \/ arg[t] = mem[s].inum)
      => pc[t] \in {"idle", "il_acq", "il_sleep", "il_post", "iu_cs"}

\* The step returns from iget in thread t.
IgetReturns(t) ==
  /\ pc[t] \in {"ig_chkvalid", "ig_waitacq", "ig_iu_cs"}
  /\ pc'[t] = "idle"

\* C1: on every entry of the index, I_BUSYW set means exactly one thread holds
\* the inode exclusively (ilock(ip, 1) holder, miss-path loader or iput teardown)
\* and none holds it shared; I_BUSYR set means readbusy >= 1.
C1_BusyFlagsMatchHolders ==
  \A s \in Slots : InIndex(s) =>
    /\ I_BUSYW \in mem[s].flags =>
          Cardinality(ExclHolders(s)) = 1 /\ SharedHolders(s) = {}
    /\ I_BUSYR \in mem[s].flags => mem[s].readbusy >= 1

\* C2: an entry a caller holds a counted reference to is in the index and is
\* not being removed from it by an eviction: no doomed entry is resurrected.
C2_HeldEntryStaysIndexed ==
  \A t \in Threads : own[t] >= 1 =>
    /\ InIndex(ip[t])
    /\ \A u \in Threads : ~(pc[u] = "ev_remove" /\ victim[u] = ip[t])

\* C3: no step of iget, ilock, iunlock or iput reads or writes a field of an
\* entry whose memory has been reclaimed: no use after free.
C3_NoUseAfterFree == ~uaf

\* C4: every return of iget(dev, inum) yields an entry whose inum is the
\* argument, with I_VALID set and ref >= 1, that the returning thread has not locked.
C4_IgetPostcondition ==
  [][\A t \in Threads : IgetReturns(t) =>
        /\ mem'[ip'[t]].inum = arg[t]
        /\ I_VALID \in mem'[ip'[t]].flags
        /\ mem'[ip'[t]].ref >= 1
        /\ held'[t] = "none"
        /\ mem'[ip'[t]].lock # t]_vars

\* C5: ref is never negative, and on an entry of the index with no iget or iput
\* in flight ref is the number of references handed out and not yet put.
C5_RefCountExact ==
  \A s \in Slots :
    /\ mem[s].alloc => mem[s].ref >= 0
    /\ (InIndex(s) /\ Quiescent(s)) => mem[s].ref = SumOwn(Threads, s)

\* C7: no two distinct entries reachable from the index carry the same inum.
C7_IndexedInumsDistinct ==
  \A k1, k2 \in Keys :
    (k1 # k2 /\ index[k1] # NoSlot /\ index[k2] # NoSlot /\ index[k1] # index[k2])
      => mem[index[k1]].inum # mem[index[k2]].inum

\* ------------------------------------------------------------- directories
DIRSIZ == 2          \* bytes of a record's name (fs.h), scaled down
RecsPerBlock == 2    \* BSIZE / sizeof(struct dirent), scaled down
MaxFileBlocks == 2   \* MAXFILE, scaled down
MaxDirOps == 2       \* dirlink and dirlookup calls made on the directory
UShort == 65536      \* de.inum is an unsigned short

Chars == {"a", "b"}
NUL == ""
MaxDirRecs == MaxFileBlocks * RecsPerBlock

\* The names a caller passes: C strings of 1 .. DIRSIZ + 1 characters.
Names == UNION {[1..n -> Chars] : n \in 1..(DIRSIZ + 1)}

\* The inum arguments a caller passes (uint): 0, the inodes, and two past 16 bits.
DirInums == (0..MaxInum) \cup {UShort, UShort + 1}

\* s[i] of a C string: NUL from its end on.
CharAt(s, i) == IF i <= Len(s) THEN s[i] ELSE NUL

\* strcmp(s, t) == 0: the whole strings are compared.
StrcmpEq(s, t) == s = t

\* namecmp(s, t) == 0, that is strncmp(s, t, DIRSIZ) == 0.
NamecmpEq(s, t) == \A i \in 1..DIRSIZ : CharAt(s, i) = CharAt(t, i)

\* strncpy(de.name, name, DIRSIZ): at most DIRSIZ characters, NUL padded.
Strncpy(name) == SubSeq(name, 1, IF Len(name) < DIRSIZ THEN Len(name) ELSE DIRSIZ)

\* A zeroed record: blocks are zero when allocated (bfree zeroes them).
FreeRec == [inum |-> 0, name |-> <<>>]

\* The records dirlookup scans: whole blocks, for(off = 0; off < dp->size; off += BSIZE).
ScanLimit(size) == RecsPerBlock * ((size + RecsPerBlock - 1) \div RecsPerBlock)

\* dirlookup's scan: the index of the first in-use record whose name matches, or 0.
DirlookupIdx(d, name) ==
  LET hits == {i \in 1..ScanLimit(d.size) :
                 d.recs[i].inum # 0 /\ NamecmpEq(name, d.recs[i].name)}
  IN IF hits = {} THEN 0 ELSE CHOOSE i \in hits : \A j \in hits : i <= j

\* dirlookup(dp, name, 0): the inum handed to iget, 0 for a null return.
DirlookupInum(d, name) ==
  IF DirlookupIdx(d, name) = 0 THEN 0 ELSE d.recs[DirlookupIdx(d, name)].inum

\* dirlink's scan for an empty dirent: the first record with inum 0 below
\* dp->size, else the record at dp->size (sizes count records here).
DirlinkOff(d) ==
  LET free == {i \in 1..d.size : d.recs[i].inum = 0}
  IN IF free = {} THEN d.size + 1 ELSE CHOOSE i \in free : \A j \in free : i <= j

\* writei(dp, &de, off, sizeof(de)): clamps n at MAXFILE*BSIZE, so at the maximum
\* size it writes nothing and returns 0; it raises dp->size when the write ends past it.
WriteiRec(d, i, de) ==
  IF i > MaxDirRecs THEN d
  ELSE [d EXCEPT !.recs[i] = de, !.size = IF i > d.size THEN i ELSE d.size]

\* The single-threaded effect of iget(dev, n) and of iput(ip) on a child's ref.
RefUp(cref, n) == IF n \in DOMAIN cref THEN [cref EXCEPT ![n] = @ + 1] ELSE cref
RefDown(cref, n) == IF n \in DOMAIN cref THEN [cref EXCEPT ![n] = @ - 1] ELSE cref

\* What the directory was when the last call started.
Before(d) == [recs |-> d.recs, size |-> d.size, cref |-> d.cref]

\* The i-th of the names of 1 .. DIRSIZ characters: the names mkfs-like setup
\* gives the records of an initial directory.
RECURSIVE Pow2(_)
Pow2(n) == IF n = 0 THEN 1 ELSE 2 * Pow2(n - 1)

NameLen(i) == CHOOSE l \in 1..(DIRSIZ + MaxDirRecs) :
                 i <= Pow2(l + 1) - 2 /\ i > Pow2(l) - 2

NameOf(i) ==
  LET l == NameLen(i)
      j == i - (Pow2(l) - 2) - 1
  IN [k \in 1..l |-> IF (j \div Pow2(k - 1)) % 2 = 0 THEN "a" ELSE "b"]

\* A directory of k records, the first one free when hole is set.
PreDir(k, hole) ==
  [phase |-> "open",
   recs |-> [i \in 1..MaxDirRecs |->
               IF i > k \/ (hole /\ i = 1) THEN FreeRec
               ELSE [inum |-> 1 + (i % MaxInum), name |-> NameOf(i)]],
   size |-> k,
   cref |-> [n \in Inums |-> 0],
   nops |-> 0,
   last |-> [op |-> "none", name |-> <<>>, inum |-> 0, ret |-> 0, fatal |-> "",
             was |-> [recs |-> <<>>, size |-> 0, cref |-> <<>>]]]

DirInit ==
  /\ CacheInit /\ al = AllocOff /\ tr = TruncOff
  /\ fl = FileOff /\ bm = BitmapOff /\ nx = NamexOff
  /\ dir \in {PreDir(k, h) : k \in 0..MaxDirRecs, h \in BOOLEAN}

DirRunning == dir.phase = "open" /\ dir.last.fatal = "" /\ dir.nops < MaxDirOps

\* dirlookup(dp, name, 0) by a caller holding dp locked; the inode it returns
\* carries one more reference.
Dirlookup(name) ==
  /\ DirRunning
  /\ RefUp(dir.cref, DirlookupInum(dir, name)) \in [Inums -> 0..MaxOwn]
  /\ dir' = [dir EXCEPT
               !.cref = RefUp(@, DirlookupInum(dir, name)),
               !.nops = @ + 1,
               !.last = [op |-> "dirlookup", name |-> name, inum |-> 0,
                         ret |-> DirlookupInum(dir, name), fatal |-> "",
                         was |-> Before(dir)]]
  /\ UNCHANGED <<mem, index, disk, pend, inRead, pc, arg, wr, ip, victim, visited,
                 own, held, stale, uaf, panic, ncalls, al, tr, fl, bm, nx>>

\* iput(ip) by a caller of dirlookup on the child it got.
DirIput(n) ==
  /\ dir.phase = "open" /\ dir.last.fatal = ""
  /\ dir.cref[n] > 0
  /\ dir' = [dir EXCEPT
               !.cref = RefDown(@, n),
               !.last = [op |-> "iput", name |-> <<>>, inum |-> n, ret |-> 0,
                         fatal |-> "", was |-> Before(dir)]]
  /\ UNCHANGED <<mem, index, disk, pend, inRead, pc, arg, wr, ip, victim, visited,
                 own, held, stale, uaf, panic, ncalls, al, tr, fl, bm, nx>>

\* dirlink(dp, name, inum) by a caller holding dp exclusively.
Dirlink(name, inum) ==
  /\ DirRunning
  /\ LET found == DirlookupInum(dir, name)
         off == DirlinkOff(dir)
         de == [inum |-> inum % UShort, name |-> Strncpy(name)]
         call == [op |-> "dirlink", name |-> name, inum |-> inum, ret |-> 0,
                  fatal |-> "", was |-> Before(dir)]
     IN IF found # 0
          THEN \* ip = dirlookup(...); iput(ip); return -1;
               dir' = [dir EXCEPT !.cref = RefDown(RefUp(@, found), found),
                                  !.nops = @ + 1,
                                  !.last = [call EXCEPT !.ret = 0 - 1]]
        ELSE IF off > MaxDirRecs
          THEN \* writei returns 0: panic("dirlink")
               dir' = [dir EXCEPT !.nops = @ + 1,
                                  !.last = [call EXCEPT !.fatal = "dirlink"]]
        ELSE dir' = [WriteiRec(dir, off, de) EXCEPT !.nops = @ + 1, !.last = call]
  /\ UNCHANGED <<mem, index, disk, pend, inRead, pc, arg, wr, ip, victim, visited,
                 own, held, stale, uaf, panic, ncalls, al, tr, fl, bm, nx>>

DirNext ==
  \/ \E name \in Names : Dirlookup(name)
  \/ \E n \in Inums : DirIput(n)
  \/ \E name \in Names, inum \in DirInums : Dirlink(name, inum)

SpecDir == DirInit /\ [][DirNext]_vars

\* The call that just returned was a dirlink of a name that was absent / present.
LinkedAbsent ==
  /\ dir.phase = "open" /\ dir.last.op = "dirlink"
  /\ DirlookupIdx(dir.last.was, dir.last.name) = 0

LinkedPresent ==
  /\ dir.phase = "open" /\ dir.last.op = "dirlink"
  /\ DirlookupIdx(dir.last.was, dir.last.name) # 0

\* No two in-use records of the directory carry the same name.
NamesUnique ==
  dir.phase = "open" =>
    \A i, j \in 1..MaxDirRecs :
      (i # j /\ dir.recs[i].inum # 0 /\ dir.recs[j].inum # 0)
        => dir.recs[i].name # dir.recs[j].name

\* dirlink on a present name returns -1 and changes neither the records, the
\* size nor the child's ref.
PresentRejected ==
  LinkedPresent =>
    /\ dir.last.ret = 0 - 1 /\ dir.last.fatal = ""
    /\ Before(dir) = dir.last.was

\* C10 as stated: dirlink(dp, n, x) of an absent name returns 0 and a following
\* dirlookup(dp, n) returns inode x, for every x; dirlink of a present name
\* returns -1 and changes nothing; in-use records never share a name.
C10_DirlinkAsStated ==
  /\ LinkedAbsent =>
       /\ dir.last.ret = 0 /\ dir.last.fatal = ""
       /\ DirlookupInum(dir, dir.last.name) = dir.last.inum
  /\ PresentRejected
  /\ NamesUnique

\* C10 amended: the same for 1 <= x < 2^16 (the record keeps inum in 16 bits and
\* 0 marks it free) while the directory has a free record or is below its
\* maximum size; without room dirlink panics and the directory is unchanged.
C10_DirlinkRoundTrip ==
  /\ (LinkedAbsent /\ DirlinkOff(dir.last.was) <= MaxDirRecs) =>
       /\ dir.last.ret = 0 /\ dir.last.fatal = ""
       /\ (dir.last.inum \in 1..(UShort - 1)) =>
             DirlookupInum(dir, dir.last.name) = dir.last.inum
  /\ (LinkedAbsent /\ DirlinkOff(dir.last.was) > MaxDirRecs) =>
       /\ dir.last.fatal = "dirlink"
       /\ Before(dir) = dir.last.was
  /\ PresentRejected
  /\ NamesUnique

\* A dirlink of a name longer than DIRSIZ has succeeded into a free record of a
\* directory that holds another name, and dirlookup finds the inode it linked.
C10_Witness ==
  /\ LinkedAbsent /\ dir.last.ret = 0 /\ dir.last.fatal = ""
  /\ Len(dir.last.name) > DIRSIZ
  /\ dir.last.inum \in 1..(UShort - 1)
  /\ DirlinkOff(dir.last.was) < dir.last.was.size
  /\ DirlookupInum(dir, dir.last.name) = dir.last.inum
  /\ \E n \in Names : ~NamecmpEq(n, dir.last.name) /\ DirlookupInum(dir, n) # 0

\* ------------------------------------------------------------- iput and itrunc, one thread
NDIRECT == 2         \* direct block addresses of an inode (fs.h), scaled down
NINDIRECT == 2       \* addresses in the indirect block (fs.h), scaled down

\* Data blocks: enough for a file that uses every address it has.
MaxBlock == NDIRECT + 1 + NINDIRECT
Blocks == 1..MaxBlock

\* The blocks an inode with these addresses and this indirect block refers to.
Referenced(addrs, ind) ==
  ({addrs[i] : i \in 0..NDIRECT} \cup {ind[j] : j \in 1..NINDIRECT}) \ {0}

\* The non-zero addresses of a sequence, in order.
NonZero(seq) == SelectSeq(seq, LAMBDA b : b # 0)

\* itrunc's first loop: rcu_delayed2(ip->dev, ip->addrs[i], bfree) for each
\* non-zero direct address.
FreeDirect(addrs) == NonZero([i \in 1..NDIRECT |-> addrs[i - 1]])

\* Freeing the entries of the indirect block but not the block itself.
FreeIndirectEntries(addrs, ind) ==
  IF addrs[NDIRECT] = 0 THEN <<>> ELSE NonZero([j \in 1..NINDIRECT |-> ind[j]])

\* itrunc's second part: with an indirect block, bfree for each of its non-zero
\* entries, then for the indirect block.
FreeIndirect(addrs, ind) ==
  IF addrs[NDIRECT] = 0 THEN <<>>
  ELSE NonZero([j \in 1..NINDIRECT |-> ind[j]]) \o <<addrs[NDIRECT]>>

\* iupdate(ip): the dinode takes type, major, minor, nlink, size, gen, addrs.
IupdateFull(e) ==
  [type |-> e.type, major |-> e.major, minor |-> e.minor, nlink |-> e.nlink,
   size |-> e.size, gen |-> e.gen, addrs |-> e.addrs]

\* itrunc(ip): the inode after it (addresses zeroed, size 0).
Itrunc(e) == [e EXCEPT !.addrs = [i \in 0..NDIRECT |-> 0], !.size = 0]

\* The k-th block of a file, numbered upwards or downwards.
BlockOf(k, down) == IF down THEN MaxBlock + 1 - k ELSE k

\* The inodes iget can have loaded from a consistent file system: a file of nd
\* direct blocks, with an indirect block whose entries at ents are in use when
\* all direct addresses are; all its blocks are distinct; size 0 without blocks.
TruncInput(r, m, n, g, nd, ents, down) ==
  LET a == [i \in 0..NDIRECT |->
              IF i < nd THEN BlockOf(i + 1, down)
              ELSE IF i = NDIRECT /\ ents # {} THEN BlockOf(NDIRECT + 1, down)
              ELSE 0]
      sz == IF nd = 0 THEN 0 ELSE 1
  IN [phase |-> "open",
      ino |-> [ref |-> r, flags |-> {I_VALID}, readbusy |-> 0, type |-> T_FILE,
               major |-> m, minor |-> m, nlink |-> n, size |-> sz, gen |-> g,
               addrs |-> a],
      ind |-> [j \in 1..NINDIRECT |->
                 IF j \in ents /\ ents # {0}
                   THEN BlockOf(NDIRECT + 1 + j, down) ELSE 0],
      dsk |-> [type |-> T_FILE, major |-> m, minor |-> m, nlink |-> n, size |-> sz,
               gen |-> g, addrs |-> a],
      freed |-> <<>>, last |-> "none", fatal |-> "",
      was |-> [ref |-> 0, nlink |-> 0, gen |-> 0, addrs |-> <<>>, ind |-> <<>>]]

\* ents = {} is a file without indirect block, {0} one whose indirect block is empty.
TruncInit ==
  /\ CacheInit /\ al = AllocOff /\ dir = DirOff
  /\ fl = FileOff /\ bm = BitmapOff /\ nx = NamexOff
  /\ \E r \in 1..MaxOwn, m \in {0, 1}, n \in {0, 1}, g \in {0, 1},
        nd \in 0..NDIRECT, down \in BOOLEAN,
        ents \in (SUBSET (1..NINDIRECT)) \cup {{0}} :
       /\ ents # {} => nd = NDIRECT
       /\ tr = TruncInput(r, m, n, g, nd, ents, down)

\* What iput finds: the fields its postcondition speaks of.
TruncBefore(x) ==
  [ref |-> x.ino.ref, nlink |-> x.ino.nlink, gen |-> x.ino.gen,
   addrs |-> x.ino.addrs, ind |-> x.ind]

\* idup(ip) by the thread that holds the inode.
TruncIdup ==
  /\ tr.phase = "open" /\ tr.fatal = ""
  /\ tr.ino.ref >= 1 /\ tr.ino.ref < MaxOwn
  /\ tr' = [tr EXCEPT !.ino.ref = @ + 1, !.last = "idup", !.was = TruncBefore(tr)]
  /\ UNCHANGED <<mem, index, disk, pend, inRead, pc, arg, wr, ip, victim, visited,
                 own, held, stale, uaf, panic, ncalls, al, dir, fl, bm, nx>>

\* iput(ip) run to its end with no other thread on the inode.
TruncIput ==
  /\ tr.phase = "open" /\ tr.fatal = ""
  /\ tr.ino.ref >= 1
  /\ LET e == [tr.ino EXCEPT !.ref = @ - 1]
         t1 == Itrunc(e)
         t2 == [t1 EXCEPT !.type = 0, !.major = 0, !.minor = 0, !.gen = @ + 1]
     IN IF e.ref = 0 /\ e.nlink = 0
          THEN IF e.flags \cap {I_BUSYR, I_BUSYW} # {}
                 THEN tr' = [tr EXCEPT !.ino = e, !.fatal = "iput busy"]
               ELSE IF I_VALID \notin e.flags
                 THEN tr' = [tr EXCEPT !.ino = e, !.fatal = "iput not valid"]
               ELSE tr' = [tr EXCEPT
                             !.ino = t2,
                             !.dsk = IupdateFull(t2),
                             !.freed = @ \o FreeDirect(e.addrs)
                                         \o FreeIndirect(e.addrs, tr.ind),
                             !.last = "iput", !.was = TruncBefore(tr)]
          ELSE tr' = [tr EXCEPT !.ino = e, !.last = "iput", !.was = TruncBefore(tr)]
  /\ UNCHANGED <<mem, index, disk, pend, inRead, pc, arg, wr, ip, victim, visited,
                 own, held, stale, uaf, panic, ncalls, al, dir, fl, bm, nx>>

TruncNext == TruncIdup \/ TruncIput

SpecTrunc == TruncInit /\ [][TruncNext]_vars

\* How many times block b was handed to bfree.
TimesFreed(b) == Len(SelectSeq(tr.freed, LAMBDA x : x = b))

\* The iput that just returned dropped the last reference of an inode with nlink 0.
LastDrop ==
  /\ tr.phase = "open" /\ tr.last = "iput"
  /\ tr.was.ref = 1 /\ tr.was.nlink = 0

\* C6: after iput dropped the last reference of a VALID, unlocked inode with
\* nlink 0, memory and disk have type 0, major = minor = 0, size 0, all addrs 0
\* and gen one greater, and every block the inode referenced (direct, entries of
\* the indirect block, the indirect block) went to bfree exactly once.
C6_LastIputFreesInode ==
  LastDrop =>
    /\ tr.fatal = ""
    /\ tr.ino.type = 0 /\ tr.ino.major = 0 /\ tr.ino.minor = 0 /\ tr.ino.size = 0
    /\ \A i \in 0..NDIRECT : tr.ino.addrs[i] = 0
    /\ tr.ino.gen = tr.was.gen + 1
    /\ tr.dsk = IupdateFull(tr.ino)
    /\ tr.ino.flags = {I_VALID} /\ tr.ino.readbusy = 0
    /\ \A b \in Blocks :
         TimesFreed(b) = IF b \in Referenced(tr.was.addrs, tr.was.ind) THEN 1 ELSE 0

\* The last reference of an inode with two direct blocks and an indirect block
\* holding an entry was dropped.
C6_Witness ==
  /\ LastDrop
  /\ \A i \in 0..NDIRECT : tr.was.addrs[i] # 0
  /\ \E j \in 1..NINDIRECT : tr.was.ind[j] # 0
  /\ Len(tr.freed) >= NDIRECT + 2

\* ------------------------------------------------------------- ilock and iunlock on a cached inode
\* Every thread has got inode 1 from iget: it is cached and VALID in the first
\* slot, the blank entry it displaced is gone, the other blank entries remain.
LockInit ==
  /\ mem = [s \in Slots |->
              IF s = 1
                THEN [ZeroInode(1, TRUE) EXCEPT
                        !.ref = MaxThreads, !.flags = {I_VALID},
                        !.type = FormatDinode(1).type, !.nlink = FormatDinode(1).nlink,
                        !.size = FormatDinode(1).size, !.gen = FormatDinode(1).gen]
              ELSE IF s <= NINODE THEN ZeroInode(0 - s, TRUE)
              ELSE ZeroInode(0, FALSE)]
  /\ index = [k \in Keys |-> IF k = 1 THEN 1
                             ELSE IF k < 0 - 1 THEN 0 - k ELSE NoSlot]
  /\ disk = [n \in Inums |-> FormatDinode(n)]
  /\ pend = [s \in Slots |-> <<>>]
  /\ inRead = {}
  /\ pc = [t \in Threads |-> "idle"]
  /\ arg = [t \in Threads |-> 0]
  /\ wr = [t \in Threads |-> 0]
  /\ ip = [t \in Threads |-> 1]
  /\ victim = [t \in Threads |-> NoSlot]
  /\ visited = [t \in Threads |-> {}]
  /\ own = [t \in Threads |-> 1]
  /\ held = [t \in Threads |-> "none"]
  /\ stale = {}
  /\ uaf = FALSE
  /\ panic = ""
  /\ ncalls = 0
  /\ al = AllocOff /\ tr = TruncOff /\ dir = DirOff
  /\ fl = FileOff /\ bm = BitmapOff /\ nx = NamexOff

\* iput(ip) by a caller that keeps another reference.
IputKeep(t) == own[t] >= 2 /\ Iput(t)

\* The steps a thread takes inside ilock and iunlock once it has called them.
LockStep(t) == IlockAcq(t) \/ IlockPost(t) \/ IunlockRelease(t)

LockNext ==
  \E t \in Threads :
    \/ \E w \in {0, 1} : Ilock(t, w)
    \/ IlockAcq(t) \/ IlockPost(t)
    \/ Iunlock(t) \/ IunlockRelease(t)
    \/ Idup(t) \/ IputKeep(t)

\* A thread inside ilock or iunlock keeps running: the scheduler is weakly fair.
SpecLock ==
  /\ LockInit /\ [][LockNext]_vars
  /\ \A t \in Threads : WF_vars(LockStep(t))

\* Thread b has called ilock(ip, 1) and has not got the lock yet.
RequestsExcl(b) == pc[b] \in {"il_acq", "il_sleep"} /\ wr[b] = 1

\* No thread but b holds the lock, requests it or is releasing it.
Alone(b) == \A a \in Threads \ {b} : held[a] = "none" /\ pc[a] = "idle"

\* C9: a thread does not return from ilock(ip, 1) while another holds the lock,
\* and a thread that requested the exclusive lock gets it once the holders have
\* called iunlock and nobody else holds or requests it: no wakeup is lost.
C9_ExclusiveWaitsThenAcquires ==
  /\ [](\A a, b \in Threads :
          (a # b /\ held[b] = "excl") => held[a] = "none")
  /\ \A b \in Threads :
       (RequestsExcl(b) /\ Alone(b)) ~> (held[b] = "excl" \/ ~Alone(b))

\* Thread 1 holds the lock shared and is in iunlock, about to wake thread 2,
\* which sleeps in ilock(ip, 1).
C9_Witness ==
  /\ held[1] = "shared" /\ pc[1] = "iu_cs"
  /\ pc[2] = "il_sleep" /\ wr[2] = 1
  /\ I_BUSYR \in mem[1].flags /\ mem[1].readbusy = 1

\* ------------------------------------------------------------- ialloc
\* A free on-disk inode, and one in use as a directory.
FreeDinode == [type |-> 0, nlink |-> 0, size |-> 0, gen |-> 0]
UsedDinode == [type |-> T_DIR, nlink |-> 1, size |-> 1, gen |-> 0]

\* The cache after iinit over a disk whose inodes are free or in use.
AllocInit ==
  /\ CacheMemInit /\ tr = TruncOff /\ dir = DirOff
  /\ disk \in [Inums -> {FreeDinode, UsedDinode}]
  /\ al = AllocOff
  /\ fl = FileOff /\ bm = BitmapOff /\ nx = NamexOff

\* The threads of this scenario call ialloc(dev, T_FILE) and release what they
\* got with iunlockput; the inodes they find free are those iput freed.
\* ialloc(dev, type): readsb; inum = 1.
IallocStart(t) ==
  /\ Running /\ pc[t] = "idle" /\ own[t] = 0 /\ al[t].phase = "off"
  /\ ncalls < MaxCalls
  /\ ncalls' = ncalls + 1
  /\ al' = [al EXCEPT ![t] = [phase |-> "scan", inum |-> 1, type |-> T_FILE, gen |-> 0]]
  /\ UNCHANGED <<mem, index, disk, pend, inRead, pc, arg, wr, ip, victim, visited,
                 own, held, stale, uaf, panic, tr, dir, fl, bm, nx>>

\* One turn of the loop: for(inum ...; inum < sb.ninodes; inum++) { bp = bread(...);
\* seemsfree = (dip->type == 0); brelse; if(seemsfree) ip = iget(dev, inum); ... }
\* panic("ialloc: no inodes") past the last inode.
IallocScan(t) ==
  /\ Running /\ pc[t] = "idle" /\ own[t] = 0 /\ al[t].phase = "scan"
  /\ IF al[t].inum > MaxInum
       THEN /\ Panic(t, "ialloc: no inodes")
            /\ uaf' = FALSE
            /\ UNCHANGED <<mem, index, pend, inRead, arg, ip, stale, al>>
     ELSE IF disk[al[t].inum].type = 0
       THEN /\ Lookup(t, al[t].inum)
            /\ al' = [al EXCEPT ![t].phase = "got"]
     ELSE /\ al' = [al EXCEPT ![t].inum = @ + 1]
          /\ uaf' = FALSE
          /\ UNCHANGED <<mem, index, pend, inRead, pc, arg, ip, stale, panic>>
  /\ UNCHANGED <<disk, wr, victim, visited, own, held, ncalls, tr, dir, fl, bm, nx>>

\* ilock(ip, 1) on the inode iget returned.
IallocLock(t) ==
  /\ al[t].phase = "got"
  /\ IlockCall(t, 1)
  /\ al' = [al EXCEPT ![t].phase = "locked"]
  /\ UNCHANGED <<tr, dir, fl, bm, nx>>

\* if(ip->type == 0){ ip->type = type; ip->gen += 1;
\*   if(ip->nlink || ip->size || ip->addrs[0]) panic("ialloc not zeroed"); ...
IallocCheck(t) ==
  /\ Running /\ pc[t] = "idle" /\ held[t] = "excl" /\ al[t].phase = "locked"
  /\ uaf' = Touch(t, "ip", ip[t])
  /\ LET e == mem[ip[t]]
     IN IF e.type = 0
          THEN /\ mem' = [mem EXCEPT ![ip[t]].type = al[t].type,
                                     ![ip[t]].gen = @ + 1]
               /\ IF e.nlink # 0 \/ e.size # 0
                    THEN Panic(t, "ialloc not zeroed") /\ UNCHANGED al
                    ELSE /\ al' = [al EXCEPT ![t].phase = "update", ![t].gen = e.gen]
                         /\ UNCHANGED <<pc, panic>>
          ELSE /\ al' = [al EXCEPT ![t].phase = "undo"]
               /\ UNCHANGED <<mem, pc, panic>>
  /\ UNCHANGED <<index, disk, pend, inRead, arg, wr, ip, victim, visited,
                 own, held, stale, ncalls, tr, dir, fl, bm, nx>>

\* ... iupdate(ip); return ip; }
IallocUpdate(t) ==
  /\ Running /\ pc[t] = "idle" /\ al[t].phase = "update"
  /\ uaf' = Touch(t, "ip", ip[t])
  /\ disk' = Iupdate(disk, mem[ip[t]])
  /\ al' = [al EXCEPT ![t].phase = "done"]
  /\ UNCHANGED <<mem, index, pend, inRead, pc, arg, wr, ip, victim, visited,
                 own, held, stale, panic, ncalls, tr, dir, fl, bm, nx>>

\* iunlockput(ip) of an inode found in use after all: iunlock(ip) ...
IallocUndoUnlock(t) ==
  /\ al[t].phase = "undo"
  /\ IunlockCall(t)
  /\ al' = [al EXCEPT ![t].phase = "undo_put"]
  /\ UNCHANGED <<disk, tr, dir, fl, bm, nx>>

\* ... iput(ip); cprintf("ialloc oops"); and the loop goes on.
IallocUndoPut(t) ==
  /\ al[t].phase = "undo_put"
  /\ IputCall(t)
  /\ al' = [al EXCEPT ![t].phase = "scan", ![t].inum = @ + 1]
  /\ UNCHANGED <<tr, dir, fl, bm, nx>>

\* The caller gives the inode back without linking it: iunlockput(ip), iunlock ...
ReleaseUnlock(t) ==
  /\ al[t].phase = "done"
  /\ IunlockCall(t)
  /\ al' = [al EXCEPT ![t].phase = "rel_put"]
  /\ UNCHANGED <<disk, tr, dir, fl, bm, nx>>

\* ... and iput, which frees the inode on disk when this was the last reference.
ReleasePut(t) ==
  /\ al[t].phase = "rel_put"
  /\ IputCall(t)
  /\ al' = [al EXCEPT ![t].phase = "off"]
  /\ UNCHANGED <<tr, dir, fl, bm, nx>>

AllocNext ==
  \/ \E t \in Threads :
       \/ IallocStart(t) \/ IallocScan(t) \/ IallocLock(t) \/ IallocCheck(t)
       \/ IallocUpdate(t) \/ IallocUndoUnlock(t) \/ IallocUndoPut(t)
       \/ ReleaseUnlock(t) \/ ReleasePut(t)
       \/ IgetRetry(t) \/ IgetBump(t) \/ IgetChkFree(t) \/ IgetBackoff(t)
       \/ IgetChkValid(t) \/ IgetWaitValid(t)
       \/ EvictEnum(t) \/ EvictFlag(t) \/ EvictChk(t) \/ EvictRemove(t)
       \/ IgetAlloc(t) \/ IgetLoad(t) \/ IgetUnlockChk(t) \/ IgetUnlock(t)
       \/ IlockAcq(t) \/ IlockPost(t) \/ IunlockRelease(t)
       \/ IputAcq(t) \/ IputTrunc(t) \/ IputFree(t) \/ IputRel(t)
  \/ \E s \in Slots : Reclaim(s)

SpecAlloc == AllocInit /\ [][AllocNext]_vars

\* ialloc has returned to thread t, which still holds what it got.
Allocated(t) == al[t].phase = "done"

\* C8: two ialloc calls whose inodes have not been freed hold different inums,
\* and the inode ialloc returned is held exclusively by its caller with the
\* type asked for, nlink 0, size 0 and gen one greater, in memory and on disk.
C8_IallocExclusive ==
  \A t \in Threads : Allocated(t) =>
    /\ \A u \in Threads \ {t} : Allocated(u) => al[u].inum # al[t].inum
    /\ mem[ip[t]].inum = al[t].inum
    /\ ExclHolders(ip[t]) = {t} /\ I_BUSYW \in mem[ip[t]].flags
    /\ mem[ip[t]].type = al[t].type /\ mem[ip[t]].nlink = 0 /\ mem[ip[t]].size = 0
    /\ mem[ip[t]].gen = al[t].gen + 1
    /\ disk[al[t].inum] = [type |-> al[t].type, nlink |-> 0, size |-> 0,
                           gen |-> al[t].gen + 1]

\* ------------------------------------------------------------- readi and writei, one thread
BSIZE == 2           \* bytes of a block (fs.h), scaled down
MaxIo == 3           \* the largest n a caller passes to readi / writei
MaxFileOps == 3      \* readi and writei calls made on the file

UInt == 1073741824   \* off and n are uint: they wrap (at 2^30 here, 2^32 in the kernel)

\* MAXFILE (fs.h): the blocks a file can have.
MAXFILE == NDIRECT + NINDIRECT

\* The disk of this scenario: block 0 stands for the boot block, superblock,
\* inode blocks and bitmap (in use since mkfs); the data blocks hold a maximal
\* file and its indirect block.
FsBlocks == 0..(MAXFILE + 1)
\* What a caller writes: n bytes counting 1, 2, 3 round from either of two starts.
Pattern(n, p) == [i \in 1..n |-> 1 + ((i + p) % 3)]
Sources == {Pattern(n, p) : n \in 0..MaxIo, p \in {0, 1}}
Offsets == 0..(MAXFILE * BSIZE + 1)

Min(a, b) == IF a < b THEN a ELSE b

\* balloc(dev): the first block whose bitmap bit is clear, 0 - 1 for none
\* (panic("balloc: out of blocks")).
BallocFirst(bits) ==
  IF FsBlocks \ bits = {} THEN 0 - 1
  ELSE CHOOSE b \in FsBlocks \ bits : \A c \in FsBlocks \ bits : b <= c

\* ip->addrs[bn] = addr = balloc(ip->dev), and likewise for the indirect block
\* and for its entries: the file with the bit of the new block set.
Allocate(f, where, j) ==
  LET b == BallocFirst(f.bits)
  IN IF b < 0 THEN [f EXCEPT !.fatal = "balloc: out of blocks"]
     ELSE IF where = "addrs"
       THEN [f EXCEPT !.bits = @ \cup {b}, !.ino.addrs[j] = b]
       ELSE [f EXCEPT !.bits = @ \cup {b}, !.ind[j] = b]

\* bmap(ip, bn): the file after the allocations bmap makes for logical block bn.
Bmap(f, bn) ==
  IF f.fatal # "" THEN f
  ELSE IF bn < NDIRECT
    THEN IF f.ino.addrs[bn] = 0 THEN Allocate(f, "addrs", bn) ELSE f
  ELSE IF bn - NDIRECT < NINDIRECT
    THEN LET f1 == IF f.ino.addrs[NDIRECT] = 0 THEN Allocate(f, "addrs", NDIRECT) ELSE f
         IN IF f1.fatal # "" THEN f1
            ELSE IF f1.ind[bn - NDIRECT + 1] = 0
              THEN Allocate(f1, "ind", bn - NDIRECT + 1) ELSE f1
  ELSE [f EXCEPT !.fatal = "bmap: out of range"]

\* bmap's return value once the block exists.
BmapAddr(f, bn) ==
  IF bn < NDIRECT THEN f.ino.addrs[bn]
  ELSE IF bn - NDIRECT < NINDIRECT THEN f.ind[bn - NDIRECT + 1]
  ELSE 0

\* m = min(n - tot, BSIZE - off%BSIZE)
ChunkLen(n, tot, off) == Min(n - tot, BSIZE - (off % BSIZE))

\* writei's loop: for(tot=0; tot<n; tot+=m, off+=m, src+=m) { bread(bmap(...));
\* memmove(bp->data + off%BSIZE, src, m); bwrite; brelse; }
RECURSIVE WriteLoop(_, _, _, _, _)
WriteLoop(f, src, off, tot, n) ==
  IF tot >= n \/ f.fatal # "" THEN f
  ELSE LET f1 == Bmap(f, off \div BSIZE)
           b == BmapAddr(f1, off \div BSIZE)
           m == ChunkLen(n, tot, off)
       IN IF f1.fatal # "" THEN f1
          ELSE WriteLoop(
                 [f1 EXCEPT !.data[b] =
                    [i \in 0..(BSIZE - 1) |->
                       IF i >= off % BSIZE /\ i < (off % BSIZE) + m
                         THEN src[tot + 1 + (i - (off % BSIZE))] ELSE @[i]]],
                 src, off + m, tot + m, n)

\* A write that never extends the file.
NeverExtends(n, end, size) == FALSE

\* if(n > 0 && off > ip->size), off being the end of the write.
Extends(n, end, size) == n > 0 /\ end > size

\* iupdate(ip) as far as the file goes: the dinode takes size and addrs.
FileIupdate(f) == [f EXCEPT !.dsk = [size |-> f.ino.size, addrs |-> f.ino.addrs]]

\* writei(ip, src, off, n) on a regular file: <<the file after it, its return value>>.
WriteiFile(f, src, off, n) ==
  IF off > f.ino.size \/ (off + n) % UInt < off THEN <<f, 0 - 1>>
  ELSE LET n1 == IF off + n > MAXFILE * BSIZE THEN MAXFILE * BSIZE - off ELSE n
           f1 == WriteLoop(f, src, off, 0, n1)
       IN IF f1.fatal # "" THEN <<f1, 0>>
          ELSE IF Extends(n1, off + n1, f1.ino.size)
            THEN <<FileIupdate([f1 EXCEPT !.ino.size = off + n1]), n1>>
            ELSE <<f1, n1>>

\* readi's loop: for(tot=0; tot<n; tot+=m, off+=m, dst+=m) { bread(bmap(...));
\* memmove(dst, bp->data + off%BSIZE, m); brelse; }   <<file, bytes read so far>>
RECURSIVE ReadLoop(_, _, _, _, _)
ReadLoop(f, dst, off, tot, n) ==
  IF tot >= n \/ f.fatal # "" THEN <<f, dst>>
  ELSE LET f1 == Bmap(f, off \div BSIZE)
           b == BmapAddr(f1, off \div BSIZE)
           m == ChunkLen(n, tot, off)
       IN IF f1.fatal # "" THEN <<f1, dst>>
          ELSE ReadLoop(f1,
                        dst \o [k \in 1..m |-> f1.data[b][(off % BSIZE) + k - 1]],
                        off + m, tot + m, n)

\* readi(ip, dst, off, n) on a regular file: <<the file after it, return value, dst>>.
ReadiFile(f, off, n) ==
  IF off > f.ino.size \/ (off + n) % UInt < off THEN <<f, 0 - 1, <<>>>>
  ELSE LET n1 == IF (off + n) % UInt > f.ino.size THEN f.ino.size - off ELSE n
           r == ReadLoop(f, <<>>, off, 0, n1)
       IN <<r[1], n1, r[2]>>

\* The file as a caller can tell it: inode, indirect block, data, bitmap, dinode.
FileView(f) == [ino |-> f.ino, ind |-> f.ind, data |-> f.data, bits |-> f.bits,
                dsk |-> f.dsk]

NoCall == [op |-> "none", off |-> 0, n |-> 0, src |-> <<>>, ret |-> 0, dst |-> <<>>,
           was |-> [ino |-> [size |-> 0]]]

\* What is remembered of the call before the last one.
Brief(call) == [op |-> call.op, off |-> call.off, n |-> call.n, src |-> call.src,
                size |-> call.was.ino.size]

\* A file fresh from ialloc(dev, T_FILE) on a disk fresh from mkfs: size 0, no
\* blocks, zeroed data blocks.
FreshFile ==
  [phase |-> "open",
   ino |-> [type |-> T_FILE, size |-> 0, addrs |-> [i \in 0..NDIRECT |-> 0]],
   dsk |-> [size |-> 0, addrs |-> [i \in 0..NDIRECT |-> 0]],
   ind |-> [j \in 1..NINDIRECT |-> 0],
   data |-> [b \in FsBlocks |-> [i \in 0..(BSIZE - 1) |-> 0]],
   bits |-> {0},
   fatal |-> "", nops |-> 0, last |-> NoCall, prev |-> Brief(NoCall)]

FileInit ==
  /\ CacheInit /\ al = AllocOff /\ tr = TruncOff /\ dir = DirOff
  /\ bm = BitmapOff /\ nx = NamexOff
  /\ fl = FreshFile

FileRunning == fl.phase = "open" /\ fl.fatal = "" /\ fl.nops < MaxFileOps

\* writei(ip, src, off, n) by the thread that holds ip exclusively.
Writei(src, off) ==
  /\ FileRunning
  /\ LET r == WriteiFile(fl, src, off, Len(src))
     IN fl' = [r[1] EXCEPT
                 !.nops = @ + 1, !.prev = Brief(fl.last),
                 !.last = [op |-> "writei", off |-> off, n |-> Len(src), src |-> src,
                           ret |-> r[2], dst |-> <<>>, was |-> FileView(fl)]]
  /\ UNCHANGED <<mem, index, disk, pend, inRead, pc, arg, wr, ip, victim, visited,
                 own, held, stale, uaf, panic, ncalls, al, tr, dir, bm, nx>>

\* readi(ip, dst, off, n) by the thread that holds ip locked.
Readi(off, n) ==
  /\ FileRunning
  /\ LET r == ReadiFile(fl, off, n)
     IN fl' = [r[1] EXCEPT
                 !.nops = @ + 1, !.prev = Brief(fl.last),
                 !.last = [op |-> "readi", off |-> off, n |-> n, src |-> <<>>,
                           ret |-> r[2], dst |-> r[3], was |-> FileView(fl)]]
  /\ UNCHANGED <<mem, index, disk, pend, inRead, pc, arg, wr, ip, victim, visited,
                 own, held, stale, uaf, panic, ncalls, al, tr, dir, bm, nx>>

FileNext ==
  \/ \E off \in Offsets, src \in Sources : Writei(src, off)
  \/ \E off \in Offsets, n \in (0..MaxIo) \cup {UInt - 1} : Readi(off, n)

SpecFile == FileInit /\ [][FileNext]_vars

\* The logical blocks a transfer of n bytes at off touches.
Touched(off, n) ==
  IF n = 0 THEN {} ELSE (off \div BSIZE)..((off + n - 1) \div BSIZE)

\* The last call met the precondition of a successful write.
WroteInRange ==
  /\ fl.phase = "open" /\ fl.last.op = "writei"
  /\ fl.last.off <= fl.last.was.ino.size
  /\ fl.last.off + fl.last.n <= MAXFILE * BSIZE

\* The last call was a readi or writei past the end of the file.
PastEnd ==
  /\ fl.phase = "open" /\ fl.last.op \in {"readi", "writei"}
  /\ fl.last.off > fl.last.was.ino.size

\* The last call was the readi(ip, dst, off, n) that follows a successful
\* writei(ip, src, off, n).
ReadBack ==
  /\ fl.phase = "open" /\ fl.last.op = "readi" /\ fl.prev.op = "writei"
  /\ fl.prev.off <= fl.prev.size
  /\ fl.prev.off + fl.prev.n <= MAXFILE * BSIZE
  /\ fl.last.off = fl.prev.off /\ fl.last.n = fl.prev.n

\* C11: writei(ip, src, off, n) with off <= size and off + n <= MAXFILE*BSIZE
\* returns n, sets size to max(size, off + n) and leaves a non-zero block under
\* every logical block it touched (the indirect block too from block NDIRECT
\* on); the readi(ip, dst, off, n) that follows returns n and the bytes
\* written; readi and writei with off > size return -1 and change nothing.
C11_WriteiReadiRoundTrip ==
  /\ WroteInRange =>
       /\ fl.fatal = "" /\ fl.last.ret = fl.last.n
       /\ fl.ino.size = IF fl.last.off + fl.last.n > fl.last.was.ino.size
                          THEN fl.last.off + fl.last.n ELSE fl.last.was.ino.size
       /\ fl.dsk.size = fl.ino.size /\ fl.dsk.addrs = fl.ino.addrs
       /\ \A bn \in Touched(fl.last.off, fl.last.n) :
            /\ BmapAddr(fl, bn) \in fl.bits \ {0}
            /\ bn >= NDIRECT => fl.ino.addrs[NDIRECT] \in fl.bits \ {0}
       /\ ReadiFile(fl, fl.last.off, fl.last.n)
            = <<fl, fl.last.n, fl.last.src>>
  /\ ReadBack =>
       /\ fl.last.ret = fl.prev.n /\ fl.last.dst = fl.prev.src
       /\ FileView(fl) = fl.last.was
  /\ PastEnd =>
       /\ fl.last.ret = 0 - 1
       /\ FileView(fl) = fl.last.was

\* A write that began in the last direct block and ended in the indirect range
\* of a file was read back.
C11_Witness ==
  /\ ReadBack
  /\ fl.prev.off \div BSIZE = NDIRECT - 1
  /\ (fl.prev.off + fl.prev.n - 1) \div BSIZE >= NDIRECT
  /\ fl.prev.off % BSIZE # 0
  /\ fl.last.dst = fl.prev.src
  /\ fl.ino.addrs[NDIRECT] # 0

\* ------------------------------------------------------------- more properties of the cache
\* C12: at the step in which a thread acquires the logical lock on its entry
\* (ilock sets the busy flags), the entry's type, nlink, size and gen are those
\* of the on-disk inode of the entry's inum as the last iupdate (or format) left it.
C12_LockSeesLastIupdate ==
  [][\A t \in Threads :
       (pc[t] = "il_acq" /\ pc'[t] = "il_post") =>
          /\ mem'[ip[t]].inum \in Inums
          /\ [type |-> mem'[ip[t]].type, nlink |-> mem'[ip[t]].nlink,
              size |-> mem'[ip[t]].size, gen |-> mem'[ip[t]].gen]
               = disk'[mem'[ip[t]].inum]]_vars

\* C13: with no iget in flight the index holds exactly NINODE entries, and when
\* iget panics "iget out of space" the entries of the index and those evicted
\* but not yet replaced by their evictor make up NINODE: none was lost.
C13_CapacityKept ==
  /\ (\A t \in Threads : arg[t] = 0) =>
        Cardinality({k \in Keys : index[k] # NoSlot}) = NINODE
  /\ panic = "iget out of space" =>
        Cardinality({k \in Keys : index[k] # NoSlot})
          + Cardinality({t \in Threads : pc[t] = "ig_alloc"}) = NINODE

\* C15: a thread on iget's hit path that found I_FREE set is still inside its
\* read section when it takes its ref bump back.
C15_BackoffInsideReadSection ==
  \A t \in Threads : pc[t] = "ig_backoff" => t \in inRead

\* C16: on every entry of the index whose spinlock is free, I_BUSYW implies
\* I_BUSYR and readbusy = 1, I_BUSYR implies readbusy >= 1, and I_BUSYR clear
\* implies readbusy = 0.
C16_LockFieldsConsistent ==
  \A s \in Slots : (InIndex(s) /\ mem[s].lock = NoThread) =>
    /\ I_BUSYW \in mem[s].flags => (I_BUSYR \in mem[s].flags /\ mem[s].readbusy = 1)
    /\ I_BUSYR \in mem[s].flags => mem[s].readbusy >= 1
    /\ I_BUSYR \notin mem[s].flags => mem[s].readbusy = 0

\* C17: while iput's teardown runs on an entry no other thread holds the
\* logical lock on it or runs a second teardown of it, and the kernel never
\* panics "iput busy" or "iput not valid".
C17_TeardownWaitedFor ==
  /\ panic \notin {"iput busy", "iput not valid"}
  /\ \A t \in Threads : pc[t] \in {"ip_trunc", "ip_free", "ip_rel"} =>
       \A u \in Threads \ {t} : ip[u] = ip[t] =>
          /\ held[u] = "none"
          /\ pc[u] \notin {"il_post", "ip_trunc", "ip_free", "ip_rel"}

\* C19: from the decrement of ref to 0 in iput until that iput returns, the
\* entry stays in the index and its memory stays allocated: no eviction removes it.
C19_NoEvictionDuringIput ==
  \A t \in Threads : pc[t] \in {"ip_acq", "ip_trunc", "ip_free", "ip_rel"} =>
    /\ InIndex(ip[t])
    /\ mem[ip[t]].alloc
    /\ \A u \in Threads : ~(pc[u] = "ev_remove" /\ victim[u] = ip[t])

\* ------------------------------------------------------------- balloc and bfree
BPB == 2             \* bitmap bits per bitmap block (fs.h), scaled down
NBitmapBlocks == 2   \* bitmap blocks of the disk: sb.size = NBitmapBlocks * BPB
MaxBlockOps == 4     \* balloc and bfree calls made in one run

\* Blocks 0 .. sb.size - 1; block 0 stands for the blocks in use since mkfs.
BmBlocks == 0..(NBitmapBlocks * BPB - 1)

\* A buffer cache that hands one buffer to several writers at once.
BufShared(k) == TRUE

\* bread(dev, BBLOCK(b, sb.ninodes), 1) returns once no other thread holds the
\* buffer of that bitmap block with write intent.
BufFree(k) == bm.buf[k] = NoThread

\* The bitmap after mkfs, no block handed out, data blocks zeroed, threads idle.
BitmapInit ==
  /\ CacheInit /\ al = AllocOff /\ tr = TruncOff /\ dir = DirOff
  /\ fl = FileOff /\ nx = NamexOff
  /\ bm = [phase |-> "open", bits |-> {0},
           buf |-> [k \in 0..(NBitmapBlocks - 1) |-> NoThread],
           data |-> [b \in BmBlocks |-> "zero"],
           pc |-> [t \in Threads |-> "idle"],
           at |-> [t \in Threads |-> 0],
           has |-> [t \in Threads |-> {}],
           grants |-> [b \in BmBlocks |-> 0],
           wild |-> {},
           fatal |-> "", nops |-> 0,
           last |-> [op |-> "none", t |-> NoThread, b |-> 0, bitWas |-> FALSE,
                     owner |-> FALSE, zero |-> FALSE]]

\* balloc(dev): readsb; for(b = 0; b < sb.size; b += BPB) { bp = bread(..., 1);
\* the call starts with b = 0 and comes back here for each further bitmap block.
BallocBread(t) ==
  /\ bm.phase = "open" /\ bm.fatal = ""
  /\ \/ bm.pc[t] = "idle" /\ bm.nops < MaxBlockOps
     \/ bm.pc[t] = "ba_next"
  /\ LET b == IF bm.pc[t] = "idle" THEN 0 ELSE bm.at[t]
     IN /\ BufFree(b \div BPB)
        /\ bm' = [bm EXCEPT !.buf[b \div BPB] = t, !.pc[t] = "ba_find", !.at[t] = b,
                            !.nops = IF bm.pc[t] = "idle" THEN @ + 1 ELSE @]
  /\ UNCHANGED <<mem, index, disk, pend, inRead, pc, arg, wr, ip, victim, visited,
                 own, held, stale, uaf, panic, ncalls, al, tr, dir, fl, nx>>

\* for(bi = 0; bi < BPB; bi++) if((bp->data[bi/8] & m) == 0) ...: the first clear
\* bit of the block; with none brelse(bp, 1) and the next block, or
\* panic("balloc: out of blocks") after the last.
BallocFind(t) ==
  /\ bm.phase = "open" /\ bm.fatal = "" /\ bm.pc[t] = "ba_find"
  /\ LET b == bm.at[t]
         clear == {bi \in 0..(BPB - 1) : b + bi \notin bm.bits}
     IN IF clear # {}
          THEN bm' = [bm EXCEPT !.pc[t] = "ba_set",
                                !.at[t] = b + (CHOOSE bi \in clear : \A x \in clear : bi <= x)]
        ELSE IF b + BPB < NBitmapBlocks * BPB
          THEN bm' = [bm EXCEPT !.buf[b \div BPB] = NoThread, !.pc[t] = "ba_next",
                                !.at[t] = b + BPB]
        ELSE bm' = [bm EXCEPT !.buf[b \div BPB] = NoThread, !.pc[t] = "panic",
                              !.fatal = "balloc: out of blocks"]
  /\ UNCHANGED <<mem, index, disk, pend, inRead, pc, arg, wr, ip, victim, visited,
                 own, held, stale, uaf, panic, ncalls, al, tr, dir, fl, nx>>

\* bp->data[bi/8] |= m; bwrite(bp); brelse(bp, 1); return b + bi;
BallocSet(t) ==
  /\ bm.phase = "open" /\ bm.fatal = "" /\ bm.pc[t] = "ba_set"
  /\ LET b == bm.at[t]
     IN bm' = [bm EXCEPT !.bits = @ \cup {b},
                         !.buf[b \div BPB] = NoThread,
                         !.pc[t] = "idle",
                         !.has[t] = @ \cup {b},
                         !.grants[b] = @ + 1,
                         !.last = [op |-> "balloc", t |-> t, b |-> b,
                                   bitWas |-> b \in bm.bits, owner |-> TRUE,
                                   zero |-> bm.data[b] = "zero"]]
  /\ UNCHANGED <<mem, index, disk, pend, inRead, pc, arg, wr, ip, victim, visited,
                 own, held, stale, uaf, panic, ncalls, al, tr, dir, fl, nx>>

\* A thread writes data into a block it got from balloc.
BlockWrite(t, b) ==
  /\ bm.phase = "open" /\ bm.fatal = "" /\ bm.pc[t] = "idle"
  /\ b \in bm.has[t] /\ bm.data[b] = "zero"
  /\ bm' = [bm EXCEPT !.data[b] = "used"]
  /\ UNCHANGED <<mem, index, disk, pend, inRead, pc, arg, wr, ip, victim, visited,
                 own, held, stale, uaf, panic, ncalls, al, tr, dir, fl, nx>>

\* bfree(dev, b) of a block the caller got from balloc, or of a block nobody
\* holds whose bit is clear (a caller's double free, remembered in wild):
\* bzero(dev, b) comes first.
BfreeZero(t, b) ==
  /\ bm.phase = "open" /\ bm.fatal = "" /\ bm.pc[t] = "idle"
  /\ bm.nops < MaxBlockOps
  /\ b # 0
  /\ \/ b \in bm.has[t]
     \/ b \notin bm.bits /\ \A u \in Threads : b \notin bm.has[u]
  /\ bm' = [bm EXCEPT !.data[b] = "zero", !.pc[t] = "bf_bread", !.at[t] = b,
                      !.wild = IF b \in bm.has[t] THEN @ ELSE @ \cup {b},
                      !.nops = @ + 1]
  /\ UNCHANGED <<mem, index, disk, pend, inRead, pc, arg, wr, ip, victim, visited,
                 own, held, stale, uaf, panic, ncalls, al, tr, dir, fl, nx>>

\* readsb; bp = bread(dev, BBLOCK(b, sb.ninodes), 1);
BfreeBread(t) ==
  /\ bm.phase = "open" /\ bm.fatal = "" /\ bm.pc[t] = "bf_bread"
  /\ BufFree(bm.at[t] \div BPB)
  /\ bm' = [bm EXCEPT !.buf[bm.at[t] \div BPB] = t, !.pc[t] = "bf_clear"]
  /\ UNCHANGED <<mem, index, disk, pend, inRead, pc, arg, wr, ip, victim, visited,
                 own, held, stale, uaf, panic, ncalls, al, tr, dir, fl, nx>>

\* if((bp->data[bi/8] & m) == 0) panic("freeing free block");
\* bp->data[bi/8] &= ~m; bwrite(bp); brelse(bp, 1);
BfreeClear(t) ==
  /\ bm.phase = "open" /\ bm.fatal = "" /\ bm.pc[t] = "bf_clear"
  /\ LET b == bm.at[t]
         call == [op |-> "bfree", t |-> t, b |-> b, bitWas |-> b \in bm.bits,
                  owner |-> b \in bm.has[t], zero |-> bm.data[b] = "zero"]
     IN IF b \notin bm.bits
          THEN bm' = [bm EXCEPT !.pc[t] = "panic", !.fatal = "freeing free block",
                                !.last = call]
          ELSE bm' = [bm EXCEPT !.bits = @ \ {b},
                                !.buf[b \div BPB] = NoThread,
                                !.pc[t] = "idle",
                                !.has[t] = @ \ {b},
                                !.grants[b] = 0,
                                !.last = call]
  /\ UNCHANGED <<mem, index, disk, pend, inRead, pc, arg, wr, ip, victim, visited,
                 own, held, stale, uaf, panic, ncalls, al, tr, dir, fl, nx>>

BitmapNext ==
  \E t \in Threads :
    \/ BallocBread(t) \/ BallocFind(t) \/ BallocSet(t)
    \/ \E b \in BmBlocks : BlockWrite(t, b)
    \/ \E b \in BmBlocks : BfreeZero(t, b)
    \/ BfreeBread(t) \/ BfreeClear(t)

SpecBitmap == BitmapInit /\ [][BitmapNext]_vars

\* C14: no block is returned by two balloc calls without a completed bfree of it
\* in between; the block balloc returns had its bit clear and has it set; the
\* bfree of a block its caller got from balloc (and nobody else freed) finds the
\* bit set, clears it, and the data is zero when the bit is cleared; bfree
\* panics "freeing free block" exactly when it finds the bit clear.
C14_BlocksHandedOutOnce ==
  bm.phase = "open" =>
    /\ \A b \in BmBlocks : bm.grants[b] <= 1
    /\ bm.last.op = "balloc" =>
         ~bm.last.bitWas /\ bm.last.b \in bm.bits /\ bm.last.b # 0
    /\ (bm.last.op = "bfree" /\ bm.last.owner /\ bm.last.b \notin bm.wild) =>
         /\ bm.last.bitWas /\ bm.last.zero
         /\ bm.last.b \notin bm.bits /\ bm.fatal = ""
    /\ (bm.fatal = "freeing free block") = (bm.last.op = "bfree" /\ ~bm.last.bitWas)

\* Thread 1 got blocks 1 and 2 and freed block 1, which balloc then handed to
\* thread 2.
C14_Witness ==
  /\ bm.phase = "open" /\ bm.last.op = "balloc" /\ bm.last.t = 2 /\ bm.last.b = 1
  /\ bm.has[1] = {2} /\ bm.has[2] = {1} /\ bm.wild = {}

\* ------------------------------------------------------------- waiting for I_VALID
\* One step of thread t in the inode cache.
ThreadStep(t) ==
  \/ \E n \in Inums : Iget(t, n)
  \/ IgetRetry(t) \/ IgetBump(t) \/ IgetChkFree(t) \/ IgetBackoff(t)
  \/ IgetChkValid(t) \/ IgetWaitValid(t)
  \/ EvictEnum(t) \/ EvictFlag(t) \/ EvictChk(t) \/ EvictRemove(t)
  \/ IgetAlloc(t) \/ IgetLoad(t) \/ IgetUnlockChk(t) \/ IgetUnlock(t)
  \/ Idup(t)
  \/ \E w \in {0, 1} : Ilock(t, w)
  \/ IlockAcq(t) \/ IlockPost(t)
  \/ Iunlock(t) \/ IunlockRelease(t)
  \/ Iput(t) \/ IputAcq(t) \/ IputTrunc(t) \/ IputFree(t) \/ IputRel(t)

\* The scheduler runs every thread that can take a step, the disk read of the
\* miss path completes, and delayed frees run once their readers are gone.
SpecFair ==
  /\ Init /\ [][Next]_vars
  /\ \A t \in Threads : WF_vars(ThreadStep(t))
  /\ \A s \in Slots : WF_vars(Reclaim(s))

\* C18: whenever thread L is loading the entry it inserted on the miss path and
\* thread H, on the hit path, has found that entry with I_VALID clear, H returns
\* from iget holding its reference.
C18_ValidWaitReturns ==
  \A L, H \in Threads :
    (/\ L # H
     /\ pc[L] \in {"ig_load", "ig_iu_chk", "ig_iu_cs"}
     /\ pc[H] \in {"ig_waitacq", "ig_sleep"}
     /\ ip[H] = ip[L])
      ~> (pc[H] = "idle" /\ own[H] = 1)

\* ------------------------------------------------------------- namex
ROOTINO == 1         \* the root directory's inode number (fs.h)
MaxPath == 2         \* path elements in one path
MaxNameCalls == 3    \* namei and nameiparent calls made in one run

\* The directory tree: / holds a (a directory) and b (a file), /a holds b too.
\* proc->cwd is /a.
PathNames == {"a", "b", "x"}
NameTree == [i \in 1..3 |->
               IF i = ROOTINO THEN [n \in {"a", "b"} |-> IF n = "a" THEN 2 ELSE 3]
               ELSE IF i = 2 THEN [n \in {"b"} |-> 3]
               ELSE [n \in {} |-> 0]]
InoType == [i \in 1..3 |-> IF i = 3 THEN T_FILE ELSE T_DIR]
Cwd == 2

\* Paths after skipelem split them: the sequence of their elements.
RECURSIVE PathsUpTo(_)
PathsUpTo(k) ==
  IF k = 0 THEN {<<>>}
  ELSE LET shorter == PathsUpTo(k - 1)
       IN shorter \cup {<<n>> \o p : n \in PathNames, p \in {q \in shorter : Len(q) = k - 1}}

\* The loop of namex from inode cur (ip of the code) on with the elements left in path.  st holds
\* ref (counted references per inode), lk (logical locks held) and nc (the name
\* cache); the result is the state namex leaves and what it returns (0: absent,
\* -1: panic("namex")).  On a miss: ilock(ip, 0), the checks, dirlookup,
\* nc_insert, iunlockput(ip); on a hit: ip = next.
\* nc_lookup hands out a counted reference to the child, as dirlookup does.
RECURSIVE NamexLoop(_, _, _, _)
NamexLoop(st, cur, path, parent) ==
  IF path = <<>>
    THEN IF parent
           THEN [st |-> [st EXCEPT !.ref[cur] = @ - 1], ret |-> 0]
           ELSE [st |-> st, ret |-> cur]
  ELSE
    LET name == Head(path)
        rest == Tail(path)
        hit == ~parent /\ <<cur, name>> \in st.nc
        locked == [st EXCEPT !.lk[cur] = @ + 1]
        unlockput == [locked EXCEPT !.lk[cur] = @ - 1, !.ref[cur] = @ - 1]
    IN IF hit
         THEN LET next == NameTree[cur][name]
              IN NamexLoop([st EXCEPT !.ref[next] = @ + 1], next, rest, parent)
       ELSE IF InoType[cur] = 0
         THEN [st |-> locked, ret |-> 0 - 1]
       ELSE IF InoType[cur] # T_DIR
         THEN [st |-> unlockput, ret |-> 0]
       ELSE IF parent /\ rest = <<>>
         THEN [st |-> [locked EXCEPT !.lk[cur] = @ - 1], ret |-> cur]
       ELSE IF name \notin DOMAIN NameTree[cur]
         THEN [st |-> unlockput, ret |-> 0]
       ELSE LET next == NameTree[cur][name]
            IN NamexLoop([unlockput EXCEPT !.ref[next] = @ + 1,
                                           !.nc = @ \cup {<<cur, name>>}],
                         next, rest, parent)

\* namex(path, nameiparent, name): ip = iget(ROOTDEV, ROOTINO) for a path that
\* starts with '/', ip = idup(proc->cwd) otherwise; then the loop.
Namex(st, abs, path, parent) ==
  LET cur == IF abs THEN ROOTINO ELSE Cwd
  IN NamexLoop([st EXCEPT !.ref[cur] = @ + 1], cur, path, parent)

\* No lookup made yet: the process holds its reference on proc->cwd.
NameInit ==
  /\ CacheInit /\ al = AllocOff /\ tr = TruncOff /\ dir = DirOff
  /\ fl = FileOff /\ bm = BitmapOff
  /\ nx = [phase |-> "open",
           ref |-> [i \in 1..3 |-> IF i = Cwd THEN 1 ELSE 0],
           lk |-> [i \in 1..3 |-> 0],
           nc |-> {},
           owned |-> [i \in 1..3 |-> IF i = Cwd THEN 1 ELSE 0],
           ret |-> 0, ncalls |-> 0]

\* namei(path) or nameiparent(path, name); the caller owns what namex returns.
NameCall(abs, path, parent) ==
  /\ nx.phase = "open" /\ nx.ncalls < MaxNameCalls
  /\ LET st == [ref |-> nx.ref, lk |-> nx.lk, nc |-> nx.nc]
         r == Namex(st, abs, path, parent)
     IN nx' = [nx EXCEPT !.ref = r.st.ref, !.lk = r.st.lk, !.nc = r.st.nc,
                         !.owned = IF r.ret <= 0 THEN @
                                   ELSE [@ EXCEPT ![r.ret] = @ + 1],
                         !.ret = r.ret,
                         !.ncalls = @ + 1]

\* namei(path): return namex(path, 0, name);
Namei(abs, path) ==
  /\ NameCall(abs, path, FALSE)
  /\ UNCHANGED <<mem, index, disk, pend, inRead, pc, arg, wr, ip, victim, visited,
                 own, held, stale, uaf, panic, ncalls, al, tr, dir, fl, bm>>

\* nameiparent(path, name): return namex(path, 1, name);
Nameiparent(abs, path) ==
  /\ NameCall(abs, path, TRUE)
  /\ UNCHANGED <<mem, index, disk, pend, inRead, pc, arg, wr, ip, victim, visited,
                 own, held, stale, uaf, panic, ncalls, al, tr, dir, fl, bm>>

\* The caller is done with an inode a lookup returned: iput(ip).
NameIput(i) ==
  /\ nx.phase = "open"
  /\ nx.owned[i] > (IF i = Cwd THEN 1 ELSE 0)
  /\ nx' = [nx EXCEPT !.ref[i] = @ - 1, !.owned[i] = @ - 1]
  /\ UNCHANGED <<mem, index, disk, pend, inRead, pc, arg, wr, ip, victim, visited,
                 own, held, stale, uaf, panic, ncalls, al, tr, dir, fl, bm>>

\* The name cache drops an entry.
NcEvict(e) ==
  /\ nx.phase = "open" /\ e \in nx.nc
  /\ nx' = [nx EXCEPT !.nc = @ \ {e}]
  /\ UNCHANGED <<mem, index, disk, pend, inRead, pc, arg, wr, ip, victim, visited,
                 own, held, stale, uaf, panic, ncalls, al, tr, dir, fl, bm>>

NameNext ==
  \/ \E abs \in BOOLEAN, path \in PathsUpTo(MaxPath) : Namei(abs, path)
  \/ \E abs \in BOOLEAN, path \in PathsUpTo(MaxPath) : Nameiparent(abs, path)
  \/ \E i \in 1..3 : NameIput(i)
  \/ \E e \in (1..3) \X PathNames : NcEvict(e)

SpecName == NameInit /\ [][NameNext]_vars

\* C20: when namei / nameiparent has returned, every reference in the cache is
\* one a caller owns (proc->cwd and the inodes lookups returned and the caller
\* has not put yet), and no inode is left logically locked.
C20_NamexBalanced ==
  nx.phase = "open" =>
    /\ nx.ref = nx.owned
    /\ \A i \in 1..3 : nx.lk[i] = 0
====
